---- MODULE Spec2Model ----
(***************************************************************************)
(* Model of the file mutation tools of the agency code agent:              *)
(*   Edit      (src/agency_code_agent/tools/Edit.py)                       *)
(*   MultiEdit (src/agency_code_agent/tools/MultiEdit.py)                  *)
(* One file path is modelled.  Text is a sequence of characters; the       *)
(* Python str methods the tools use (in, count, replace) are operators     *)
(* that compute what CPython computes, including for the empty pattern.    *)
(* A tool invocation is a process that walks through the steps of run():   *)
(* path validation, read, checks, open for writing (which truncates), and  *)
(* write.                                                                  *)
(***************************************************************************)
EXTENDS Integers, Sequences, FiniteSets, TLC

(* ------------------------------ bounds --------------------------------- *)
\* longest file content an Edit invocation starts from
MaxLen == 3
\* longest old_string / new_string of an Edit invocation
MaxStr == 2
\* longest file content a MultiEdit invocation starts from
MaxMultiLen == 2
\* longest edits list of a MultiEdit invocation
MaxEdits == 2

Alphabet == {"a", "b"}

StrUpTo(n) == UNION {[1..k -> Alphabet] : k \in 0..n}

\* old_string and new_string values of the operations of a MultiEdit call
OldStrings == StrUpTo(1) \cup {<<"a", "a">>}
NewStrings == StrUpTo(1)

(* ------------------------- Python str methods -------------------------- *)
\* s in c
Contains(c, s) ==
    \E p \in 1..(Len(c) - Len(s) + 1) : SubSeq(c, p, p + Len(s) - 1) = s

RECURSIVE CountFrom(_, _, _)
CountFrom(c, s, p) ==
    IF p + Len(s) - 1 > Len(c) THEN 0
    ELSE IF SubSeq(c, p, p + Len(s) - 1) = s
         THEN 1 + CountFrom(c, s, p + Len(s))
         ELSE CountFrom(c, s, p + 1)

\* c.count(s): non-overlapping occurrences, scanning from the left;
\* the empty pattern matches before every character and at the end
Count(c, s) == IF s = <<>> THEN Len(c) + 1 ELSE CountFrom(c, s, 1)

RECURSIVE ReplaceFrom(_, _, _, _, _)
ReplaceFrom(c, s, t, p, n) ==
    IF n = 0 THEN SubSeq(c, p, Len(c))
    ELSE IF s = <<>>
         THEN IF p > Len(c) THEN t
              ELSE t \o <<c[p]>> \o ReplaceFrom(c, s, t, p + 1, n - 1)
    ELSE IF p + Len(s) - 1 > Len(c) THEN SubSeq(c, p, Len(c))
    ELSE IF SubSeq(c, p, p + Len(s) - 1) = s
         THEN t \o ReplaceFrom(c, s, t, p + Len(s), n - 1)
         ELSE <<c[p]>> \o ReplaceFrom(c, s, t, p + 1, n)

\* c.replace(s, t): every non-overlapping occurrence, left to right
ReplaceAll(c, s, t) == ReplaceFrom(c, s, t, 1, -1)

\* c.replace(s, t, 1): the leftmost occurrence only
ReplaceFirst(c, s, t) == ReplaceFrom(c, s, t, 1, 1)

(* ------------------------------- state --------------------------------- *)
VARIABLES
    fkind,              \* what is at file_path: "none", "file" or "dir"
    fcontent,           \* the text of the file when fkind = "file"
    tool,               \* the tool being run: "none", "Edit", "MultiEdit"
    pc,                 \* position of the invocation inside run()
    file_path_abs,      \* os.path.isabs(self.file_path)
    old_string,         \* Edit.old_string
    new_string,         \* Edit.new_string
    replace_all,        \* Edit.replace_all
    edits,              \* MultiEdit.edits
    file_exists,        \* MultiEdit.run: file_exists
    content,            \* run(): content
    new_content,        \* Edit.run: new_content
    replacement_count,  \* Edit.run: replacement_count
    validation_content, \* MultiEdit.run: validation_content
    current_content,    \* MultiEdit.run: current_content
    i,                  \* MultiEdit.run: loop index (0-based as in the code)
    edit_results,       \* MultiEdit.run: edit_results
    result,             \* the string run() returns
    reads,              \* number of open(file_path, 'r') of this invocation
    writes,             \* number of open(file_path, 'w') of this invocation
    pre_kind,           \* fkind when the invocation was called
    pre_dir,            \* dir_exists when the invocation was called
    pre_content,        \* fcontent when the invocation was called
    rt_orig,            \* <<F>> when this Edit call undoes the previous one
                        \* (old and new swapped), F the content before both
    seen,               \* <<what a concurrent reader of the file read>>
    b_pc,               \* position of a second, concurrent Edit invocation
    b_old_string,       \* its old_string
    b_new_string,       \* its new_string
    b_replace_all,      \* its replace_all
    b_content,          \* its content
    b_new_content,      \* its new_content
    b_result,           \* the string it returns
    b_writes,           \* its number of open(file_path, 'w')
    nb_kind,            \* what is at notebook_path: "none", "file" or "dir"
    nb_json,            \* the text of the notebook file: "ok" (a JSON object
                        \* with 'cells'), "no_cells", "invalid_json"
    nb_cells,           \* the 'cells' list stored in the file
    notebook_path,      \* the form of notebook_path
    cell_id,            \* NotebookEdit/NotebookRead.cell_id
    new_source,         \* NotebookEdit.new_source
    cell_type,          \* NotebookEdit.cell_type
    edit_mode,          \* NotebookEdit.edit_mode
    cells,              \* NotebookEdit.run: cells
    target_index,       \* NotebookEdit.run: target_index
    pre_nb,             \* <<nb_kind, nb_json, nb_cells>> when the tool was called
    dir_exists,         \* the directory of file_path exists
    offset,             \* Read.offset (0 for None: both are false)
    limit,              \* Read.limit (0 for None: both are false)
    todos,              \* TodoWrite.todos
    formatted_lines     \* <<the list _format_source returned>>

fsVars   == <<fkind, fcontent, dir_exists>>
editReq  == <<old_string, new_string, replace_all>>
editLoc  == <<new_content, replacement_count>>
multiLoc == <<file_exists, validation_content, current_content, i, edit_results>>
ghost    == <<pre_kind, pre_content, rt_orig, pre_dir>>
concVars == <<b_pc, b_old_string, b_new_string, b_replace_all, b_content,
              b_new_content, b_result, b_writes>>
nbFile   == <<nb_kind, nb_json, nb_cells>>
nbReq    == <<notebook_path, cell_id, new_source, cell_type, edit_mode>>
nbLoc    == <<cells, target_index>>
nbVars   == <<nbFile, nbReq, nbLoc, pre_nb>>
moreVars == <<offset, limit, todos, formatted_lines>>
others   == <<seen, concVars, nbVars, moreVars>>
textVars == <<fkind, fcontent, file_path_abs, old_string, new_string,
              replace_all, edits, file_exists, content, new_content,
              replacement_count, validation_content, current_content, i,
              edit_results, pre_kind, pre_content, rt_orig, pre_dir,
              dir_exists,
              moreVars>>
editState == <<file_path_abs, editReq, edits, content, editLoc, multiLoc,
               ghost>>
vars == <<fkind, fcontent, tool, pc, file_path_abs, old_string, new_string,
          replace_all, edits, file_exists, content, new_content,
          replacement_count, validation_content, current_content, i,
          edit_results, result, reads, writes, pre_kind, pre_content, rt_orig,
          pre_dir,
          seen, concVars, nbVars, dir_exists, moreVars>>

(* ------------------------------ results -------------------------------- *)
\* A returned string: its leading token, the message that follows, and the
\* numbers the message carries.
Res(prefix, msg, idx, n, lines) ==
    [prefix |-> prefix, msg |-> msg, idx |-> idx, n |-> n, lines |-> lines]

NoResult == Res("", "", 0, 0, <<>>)

\* Python's None as the value of an optional string field
None == "<None>"

\* target_index = None
NoIndex == -1

ErrNoOp         == Res("Error:", "old_string and new_string must be different", 0, 0, <<>>)
ErrNotAbsolute  == Res("Error:", "File path must be absolute, not relative", 0, 0, <<>>)
ErrNotExist     == Res("Error:", "File does not exist", 0, 0, <<>>)
ErrNotAFile     == Res("Error:", "is not a file", 0, 0, <<>>)
ErrTextNotFound == Res("Error:", "String not found in file", 0, 0, <<>>)
ErrAmbiguous(n) == Res("Error:", "String appears n times in the file", 0, n, <<>>)
EditOk(n)       == Res("Successfully", "replaced n occurrences of the specified text", 0, n, <<>>)

(* -------------------------------- Edit --------------------------------- *)
\* Edit(file_path, old_string, new_string, replace_all).run() is entered
EditBegin(abs, o, n, ra, orig) ==
    /\ tool' = "Edit"
    /\ pc' = "e_validate"
    /\ file_path_abs' = abs
    /\ old_string' = o
    /\ new_string' = n
    /\ replace_all' = ra
    /\ content' = <<>>
    /\ new_content' = <<>>
    /\ replacement_count' = 0
    /\ result' = NoResult
    /\ reads' = 0
    /\ writes' = 0
    /\ pre_kind' = fkind
    /\ pre_dir' = dir_exists
    /\ pre_content' = fcontent
    /\ rt_orig' = orig
    /\ UNCHANGED <<fsVars, edits, multiLoc>>
    /\ UNCHANGED others

\* The caller invokes Edit with arguments of its choice
EditCall ==
    /\ pc = "idle"
    /\ fkind = "file" => Len(fcontent) <= MaxLen
    /\ \E abs \in BOOLEAN, o \in StrUpTo(MaxStr), n \in StrUpTo(MaxStr),
          ra \in BOOLEAN : EditBegin(abs, o, n, ra, <<>>)

\* The caller follows a successful single replacement by the reverse edit:
\* the same file, old_string and new_string swapped
EditCallUndo ==
    /\ pc = "done"
    /\ tool = "Edit"
    /\ result.prefix = "Successfully"
    /\ ~replace_all
    /\ rt_orig = <<>>
    /\ EditBegin(TRUE, new_string, old_string, FALSE, <<pre_content>>)

\* run() has returned; the tool object is discarded
Return ==
    /\ pc = "done"
    /\ pc' = "idle"
    /\ tool' = "none"
    /\ file_path_abs' = TRUE
    /\ old_string' = <<>>
    /\ new_string' = <<>>
    /\ replace_all' = FALSE
    /\ edits' = <<>>
    /\ file_exists' = FALSE
    /\ content' = <<>>
    /\ new_content' = <<>>
    /\ replacement_count' = 0
    /\ validation_content' = <<>>
    /\ current_content' = <<>>
    /\ i' = 0
    /\ edit_results' = <<>>
    /\ result' = NoResult
    /\ reads' = 0
    /\ writes' = 0
    /\ pre_kind' = "none"
    /\ pre_dir' = TRUE
    /\ pre_content' = <<>>
    /\ rt_orig' = <<>>
    /\ seen' = <<>>
    /\ notebook_path' = "/absolute.ipynb"
    /\ cell_id' = None
    /\ new_source' = <<>>
    /\ cell_type' = None
    /\ edit_mode' = "replace"
    /\ cells' = <<>>
    /\ target_index' = NoIndex
    /\ pre_nb' = <<>>
    /\ offset' = 0
    /\ limit' = 0
    /\ todos' = <<>>
    /\ formatted_lines' = <<>>
    /\ UNCHANGED <<fsVars, concVars, nbFile>>

\* mutant: the path is validated before old_string and new_string are
\* compared
EditValidate_PathFirst ==
    /\ pc = "e_validate"
    /\ IF ~file_path_abs
       THEN result' = ErrNotAbsolute /\ pc' = "done"
       ELSE IF fkind = "none"
       THEN result' = ErrNotExist /\ pc' = "done"
       ELSE IF fkind # "file"
       THEN result' = ErrNotAFile /\ pc' = "done"
       ELSE IF old_string = new_string
       THEN result' = ErrNoOp /\ pc' = "done"
       ELSE result' = result /\ pc' = "e_read"
    /\ UNCHANGED <<fsVars, tool, file_path_abs, editReq, edits, content,
                   editLoc, multiLoc, reads, writes, ghost>>
    /\ UNCHANGED others

\* Edit.run steps 1-4: the checks made before the file is opened
EditValidate ==
    /\ pc = "e_validate"
    /\ IF old_string = new_string
       THEN result' = ErrNoOp /\ pc' = "done"
       ELSE IF ~file_path_abs
       THEN result' = ErrNotAbsolute /\ pc' = "done"
       ELSE IF fkind = "none"
       THEN result' = ErrNotExist /\ pc' = "done"
       ELSE IF fkind # "file"
       THEN result' = ErrNotAFile /\ pc' = "done"
       ELSE result' = result /\ pc' = "e_read"
    /\ UNCHANGED <<fsVars, tool, file_path_abs, editReq, edits, content,
                   editLoc, multiLoc, reads, writes, ghost>>
    /\ UNCHANGED others

\* Edit.run step 5
EditRead ==
    /\ pc = "e_read"
    /\ content' = fcontent
    /\ reads' = reads + 1
    /\ pc' = "e_replace"
    /\ UNCHANGED <<fsVars, tool, file_path_abs, editReq, edits, editLoc,
                   multiLoc, result, writes, ghost>>
    /\ UNCHANGED others

\* mutant: the uniqueness check is missing
EditCheck_NoUnique(c) ==
    IF ~Contains(c, old_string) THEN ErrTextNotFound ELSE NoResult

\* mutant: the check that old_string is in the content is missing
EditCheck_NoAbsence(c) ==
    IF ~replace_all /\ Count(c, old_string) > 1
    THEN ErrAmbiguous(Count(c, old_string))
    ELSE NoResult

\* mutant: the uniqueness check counts every position at which old_string
\* occurs, overlapping occurrences included
EditCheck_Overlapping(c) ==
    LET occurrences ==
            Cardinality({p \in 1..(Len(c) - Len(old_string) + 1) :
                            SubSeq(c, p, p + Len(old_string) - 1) = old_string})
    IN IF ~Contains(c, old_string) THEN ErrTextNotFound
       ELSE IF ~replace_all /\ occurrences > 1
       THEN ErrAmbiguous(occurrences)
       ELSE NoResult

\* Edit.run steps 6-7: the error the checks on the content return,
\* NoResult if none
EditCheck(c) ==
    IF ~Contains(c, old_string) THEN ErrTextNotFound
    ELSE IF ~replace_all /\ Count(c, old_string) > 1
    THEN ErrAmbiguous(Count(c, old_string))
    ELSE NoResult

\* mutant: only the first occurrence is replaced, replace_all or not
EditNewContent_FirstOnly(c) == ReplaceFirst(c, old_string, new_string)

\* Edit.run step 8: new_content
EditNewContent(c) ==
    IF replace_all THEN ReplaceAll(c, old_string, new_string)
    ELSE ReplaceFirst(c, old_string, new_string)

\* mutant: the reported count is the number of positions at which
\* old_string occurs, overlapping occurrences included
EditReplacementCount_Overlapping(c) ==
    IF replace_all
    THEN Cardinality({p \in 1..(Len(c) - Len(old_string) + 1) :
                         SubSeq(c, p, p + Len(old_string) - 1) = old_string})
    ELSE 1

\* Edit.run step 8: replacement_count
EditReplacementCount(c) ==
    IF replace_all THEN Count(c, old_string) ELSE 1

\* Edit.run steps 6-8
EditReplace ==
    /\ pc = "e_replace"
    /\ IF EditCheck(content) # NoResult
       THEN /\ result' = EditCheck(content)
            /\ pc' = "done"
            /\ UNCHANGED editLoc
       ELSE /\ new_content' = EditNewContent(content)
            /\ replacement_count' = EditReplacementCount(content)
            /\ result' = result
            /\ pc' = "e_open"
    /\ UNCHANGED <<fsVars, tool, file_path_abs, editReq, edits, content,
                   multiLoc, reads, writes, ghost>>
    /\ UNCHANGED others

\* mutant: the file is opened without being truncated
EditOpen_NoTruncate ==
    /\ pc = "e_open"
    /\ writes' = writes + 1
    /\ pc' = "e_write"
    /\ UNCHANGED <<fsVars, tool, file_path_abs, editReq, edits, content,
                   editLoc, multiLoc, result, reads, ghost>>
    /\ UNCHANGED others

\* Edit.run step 9, open(file_path, 'w'): the file is truncated
EditOpen ==
    /\ pc = "e_open"
    /\ fkind' = "file"
    /\ fcontent' = <<>>
    /\ writes' = writes + 1
    /\ pc' = "e_write"
    /\ UNCHANGED <<tool, file_path_abs, editReq, edits, content, editLoc,
                   multiLoc, result, reads, ghost>>
    /\ UNCHANGED others
    /\ UNCHANGED dir_exists

\* file.write(data) and close on a descriptor opened with 'w': the data go
\* at the descriptor's own position, which is the start of the file, over
\* whatever the file holds by then
WriteAtStart(f, data) == data \o SubSeq(f, Len(data) + 1, Len(f))

\* Edit.run step 9, file.write(new_content) and close, and step 10
EditWrite ==
    /\ pc = "e_write"
    /\ fcontent' = WriteAtStart(fcontent, new_content)
    /\ result' = EditOk(replacement_count)
    /\ pc' = "done"
    /\ UNCHANGED <<fkind, tool, file_path_abs, editReq, edits, content,
                   editLoc, multiLoc, reads, writes, ghost>>
    /\ UNCHANGED others
    /\ UNCHANGED dir_exists

(* ------------------------------ MultiEdit ------------------------------ *)
\* class EditOperation
EditOperation ==
    [old_string : OldStrings, new_string : NewStrings, replace_all : BOOLEAN]

EditLists(n) == UNION {[1..k -> EditOperation] : k \in 0..n}

ErrNoEdits      == Res("Error:", "At least one edit operation must be provided", 0, 0, <<>>)
ErrNewFileOld   == Res("Error:", "File does not exist. To create a new file, the first edit must have an empty old_string", 0, 0, <<>>)
ErrEditNoOp(k)  == Res("Error in edit", "old_string and new_string must be different", k, 0, <<>>)
ErrEditNotFound(k) == Res("Error in edit", "String not found in file content", k, 0, <<>>)
ErrEditAmbiguous(k, n) == Res("Error in edit", "String appears n times", k, n, <<>>)
MultiEditOk(n, lines) == Res("Successfully", "applied n edits", 0, n, lines)

LineCreated     == [msg |-> "Created new file with content", n |-> 0]
LineReplaced(n) == [msg |-> "Replaced n occurrences", n |-> n]
LineReplacedOne == [msg |-> "Replaced 1 occurrence", n |-> 1]

\* The caller constructs MultiEdit(file_path, edits) and calls run()
MultiEditCall ==
    /\ pc = "idle"
    /\ fkind = "file" => Len(fcontent) <= MaxMultiLen
    /\ \E abs \in BOOLEAN, es \in EditLists(MaxEdits) :
          file_path_abs' = abs /\ edits' = es
    /\ tool' = "MultiEdit"
    /\ pc' = "m_validate_path"
    /\ file_exists' = FALSE
    /\ content' = <<>>
    /\ validation_content' = <<>>
    /\ current_content' = <<>>
    /\ i' = 0
    /\ edit_results' = <<>>
    /\ result' = NoResult
    /\ reads' = 0
    /\ writes' = 0
    /\ pre_kind' = fkind
    /\ pre_dir' = dir_exists
    /\ pre_content' = fcontent
    /\ rt_orig' = <<>>
    /\ UNCHANGED <<fsVars, editReq, editLoc>>
    /\ UNCHANGED others

\* MultiEdit.run steps 1-4
MultiEditValidatePath ==
    /\ pc = "m_validate_path"
    /\ IF ~file_path_abs
       THEN result' = ErrNotAbsolute /\ pc' = "done" /\ UNCHANGED file_exists
       ELSE IF edits = <<>>
       THEN result' = ErrNoEdits /\ pc' = "done" /\ UNCHANGED file_exists
       ELSE /\ file_exists' = (fkind # "none")
            /\ IF fkind = "none" /\ edits[1].old_string # <<>>
               THEN result' = ErrNewFileOld /\ pc' = "done"
               ELSE IF fkind = "dir"
               THEN result' = ErrNotAFile /\ pc' = "done"
               ELSE result' = result /\ pc' = "m_read"
    /\ UNCHANGED <<fsVars, tool, file_path_abs, editReq, edits, content,
                   editLoc, validation_content, current_content, i,
                   edit_results, reads, writes, ghost>>
    /\ UNCHANGED others

\* MultiEdit.run step 5, and the start of step 6
MultiEditRead ==
    /\ pc = "m_read"
    /\ content' = IF file_exists THEN fcontent ELSE <<>>
    /\ reads' = IF file_exists THEN reads + 1 ELSE reads
    /\ validation_content' = content'
    /\ i' = 0
    /\ pc' = "m_validate"
    /\ UNCHANGED <<fsVars, tool, file_path_abs, editReq, edits, file_exists,
                   editLoc, current_content, edit_results, result, writes,
                   ghost>>
    /\ UNCHANGED others

\* mutant: the test "i == 0" is missing
CreatesFile_AnyIndex(k, edit) == ~file_exists /\ edit.old_string = <<>>

\* "not file_exists and i == 0 and edit.old_string == ''"
CreatesFile(k, edit) == ~file_exists /\ k = 0 /\ edit.old_string = <<>>

\* mutant: the new-file case is tested before the no-op check
ValidationError_CreateFirst(vc, edit, k) ==
    IF ~file_exists /\ k = 0 /\ edit.old_string = <<>> THEN NoResult
    ELSE IF edit.old_string = edit.new_string THEN ErrEditNoOp(k + 1)
    ELSE IF ~Contains(vc, edit.old_string) THEN ErrEditNotFound(k + 1)
    ELSE IF ~edit.replace_all /\ Count(vc, edit.old_string) > 1
    THEN ErrEditAmbiguous(k + 1, Count(vc, edit.old_string))
    ELSE NoResult

\* The error one iteration of the validation loop returns, NoResult if none
ValidationError(vc, edit, k) ==
    IF edit.old_string = edit.new_string THEN ErrEditNoOp(k + 1)
    ELSE IF CreatesFile(k, edit) THEN NoResult
    ELSE IF ~Contains(vc, edit.old_string) THEN ErrEditNotFound(k + 1)
    ELSE IF ~edit.replace_all /\ Count(vc, edit.old_string) > 1
    THEN ErrEditAmbiguous(k + 1, Count(vc, edit.old_string))
    ELSE NoResult

\* mutant: every operation is validated against the content read from the
\* file, the effect of the earlier operations is not carried forward
StagedContent_NoCarry(vc, edit, k) == vc

\* The validation content one iteration of the validation loop leaves
StagedContent(vc, edit, k) ==
    IF CreatesFile(k, edit) THEN edit.new_string
    ELSE IF edit.replace_all
    THEN ReplaceAll(vc, edit.old_string, edit.new_string)
    ELSE ReplaceFirst(vc, edit.old_string, edit.new_string)

\* MultiEdit.run step 6: one iteration of the validation loop; after the
\* last one, the start of step 7
MultiEditValidateStep ==
    /\ pc = "m_validate"
    /\ LET edit == edits[i + 1]
           err == ValidationError(validation_content, edit, i)
       IN IF err # NoResult
          THEN /\ result' = err
               /\ pc' = "done"
               /\ UNCHANGED <<validation_content, current_content, i,
                              edit_results>>
          ELSE /\ validation_content' = StagedContent(validation_content, edit, i)
               /\ result' = result
               /\ IF i + 1 < Len(edits)
                  THEN /\ i' = i + 1
                       /\ pc' = pc
                       /\ UNCHANGED <<current_content, edit_results>>
                  ELSE /\ i' = 0
                       /\ current_content' = content
                       /\ edit_results' = <<>>
                       /\ pc' = "m_apply"
    /\ UNCHANGED <<fsVars, tool, file_path_abs, editReq, edits, file_exists,
                   content, editLoc, reads, writes, ghost>>
    /\ UNCHANGED others

\* mutant: every operation is applied to the content read from the file,
\* not to the output of the previous operation
AppliedContent_FromOriginal(cc, edit, k) ==
    IF ~file_exists /\ k = 0 /\ edit.old_string = <<>> THEN edit.new_string
    ELSE IF edit.replace_all
    THEN ReplaceAll(content, edit.old_string, edit.new_string)
    ELSE ReplaceFirst(content, edit.old_string, edit.new_string)

\* The content one iteration of the apply loop leaves
AppliedContent(cc, edit, k) ==
    IF CreatesFile(k, edit) THEN edit.new_string
    ELSE IF edit.replace_all
    THEN ReplaceAll(cc, edit.old_string, edit.new_string)
    ELSE ReplaceFirst(cc, edit.old_string, edit.new_string)

\* mutant: the occurrences are counted after the replacement is made
AppliedLine_AfterReplace(cc, edit, k) ==
    IF CreatesFile(k, edit) THEN LineCreated
    ELSE IF edit.replace_all
    THEN LineReplaced(Count(ReplaceAll(cc, edit.old_string, edit.new_string),
                            edit.old_string))
    ELSE LineReplacedOne

\* The line one iteration of the apply loop appends to edit_results
AppliedLine(cc, edit, k) ==
    IF CreatesFile(k, edit) THEN LineCreated
    ELSE IF edit.replace_all
    THEN LineReplaced(Count(cc, edit.old_string))
    ELSE LineReplacedOne

\* mutant: the file is written after each operation of the apply loop
MultiEditApplyStep_WriteEach ==
    /\ pc = "m_apply"
    /\ LET edit == edits[i + 1]
       IN /\ current_content' = AppliedContent(current_content, edit, i)
          /\ edit_results' = Append(edit_results,
                                    AppliedLine(current_content, edit, i))
    /\ fkind' = "file"
    /\ fcontent' = current_content'
    /\ writes' = writes + 1
    /\ IF i + 1 < Len(edits)
       THEN i' = i + 1 /\ pc' = pc
       ELSE i' = i /\ pc' = "m_open"
    /\ UNCHANGED <<tool, file_path_abs, editReq, edits, file_exists,
                   content, editLoc, validation_content, result, reads,
                   ghost>>
    /\ UNCHANGED others
    /\ dir_exists' = TRUE

\* MultiEdit.run step 7: one iteration of the apply loop
MultiEditApplyStep ==
    /\ pc = "m_apply"
    /\ LET edit == edits[i + 1]
       IN /\ current_content' = AppliedContent(current_content, edit, i)
          /\ edit_results' = Append(edit_results,
                                    AppliedLine(current_content, edit, i))
    /\ IF i + 1 < Len(edits)
       THEN i' = i + 1 /\ pc' = pc
       ELSE i' = i /\ pc' = "m_open"
    /\ UNCHANGED <<fsVars, tool, file_path_abs, editReq, edits, file_exists,
                   content, editLoc, validation_content, result, reads,
                   writes, ghost>>
    /\ UNCHANGED others

\* MultiEdit.run step 8, os.makedirs and open(file_path, 'w'): the file is
\* created if missing and truncated
MultiEditOpen ==
    /\ pc = "m_open"
    /\ fkind' = "file"
    /\ fcontent' = <<>>
    /\ writes' = writes + 1
    /\ pc' = "m_write"
    /\ UNCHANGED <<tool, file_path_abs, editReq, edits, content, editLoc,
                   multiLoc, result, reads, ghost>>
    /\ UNCHANGED others
    /\ dir_exists' = TRUE

\* MultiEdit.run step 8, file.write(current_content) and close, and step 9
MultiEditWrite ==
    /\ pc = "m_write"
    /\ fcontent' = WriteAtStart(fcontent, current_content)
    /\ result' = MultiEditOk(Len(edits), edit_results)
    /\ pc' = "done"
    /\ UNCHANGED <<fkind, tool, file_path_abs, editReq, edits, content,
                   editLoc, multiLoc, reads, writes, ghost>>
    /\ UNCHANGED others
    /\ UNCHANGED dir_exists

(* ----------------------------- notebooks ------------------------------ *)
\* the most cells a notebook holds when a tool is called
MaxCells == 2

\* a key that a cell (a JSON object) does not have
Absent == "<absent>"

NL == "\n"

\* the ids of the cells of the notebooks found on disk
CellIds == {"a", "0", "cell-1", Absent}

\* the source of the cells found on disk: one line
DiskSource == <<<<"s">>>>

\* the cells of the notebooks found on disk: a code cell that was executed,
\* or a markdown cell
DiskCells ==
    {[id |-> d, cell_type |-> "code", source |-> DiskSource,
      execution_count |-> "1", outputs |-> "some"] : d \in CellIds}
    \cup
    {[id |-> d, cell_type |-> "markdown", source |-> DiskSource,
      execution_count |-> Absent, outputs |-> Absent] : d \in CellIds}

CellLists(n) == UNION {[1..k -> DiskCells] : k \in 0..n}

\* the forms of notebook_path
NotebookPaths == {"relative.ipynb", "/absolute.ipynb", "/absolute.txt"}

\* os.path.isabs(notebook_path)
IsAbs(path) == path \in {"/absolute.ipynb", "/absolute.txt"}

\* notebook_path.lower().endswith('.ipynb')
EndsWithIpynb(path) == path \in {"relative.ipynb", "/absolute.ipynb"}

\* the values of cell_id a caller passes
CellIdInputs == {None, "", "a", "0", "1"}

\* the values of new_source a caller passes
SourceInputs == {<<>>, <<"x", NL, "y">>}

\* bool(s) of an optional string: None and "" are false
Truthy(s) == s # None /\ s # ""

\* int(s) succeeds
IsInt(s) == s \in {"0", "1", "2", "3"}

\* int(s)
IntOf(s) == CASE s = "0" -> 0 [] s = "1" -> 1 [] s = "2" -> 2 [] s = "3" -> 3

\* f"cell-{n}"
CellName(n) ==
    CASE n = 0 -> "cell-0" [] n = 1 -> "cell-1" [] n = 2 -> "cell-2"
      [] n = 3 -> "cell-3" [] n = 4 -> "cell-4" [] OTHER -> "cell-N"

\* source_text.split('\n')
RECURSIVE SplitLines(_)
SplitLines(t) ==
    IF \A k \in 1..Len(t) : t[k] # NL THEN <<t>>
    ELSE LET k == CHOOSE j \in 1..Len(t) :
                      t[j] = NL /\ \A h \in 1..(j - 1) : t[h] # NL
         IN <<SubSeq(t, 1, k - 1)>> \o SplitLines(SubSeq(t, k + 1, Len(t)))

\* mutant: the empty last line is kept
FormatSource_KeepEmpty(source_text) ==
    IF source_text = <<>> THEN <<>>
    ELSE LET lines == SplitLines(source_text)
             n == Len(lines)
             head == [k \in 1..(n - 1) |-> lines[k] \o <<NL>>]
         IN head \o <<lines[n]>>

\* mutant: when the empty last line is dropped, the line before it loses
\* its terminator
FormatSource_StripLast(source_text) ==
    IF source_text = <<>> THEN <<>>
    ELSE LET lines == SplitLines(source_text)
             n == Len(lines)
             head == [k \in 1..(n - 1) |-> lines[k] \o <<NL>>]
         IN IF lines[n] = <<>>
            THEN [k \in 1..(n - 1) |->
                     IF k = n - 1 THEN lines[k] ELSE lines[k] \o <<NL>>]
            ELSE head \o <<lines[n]>>

\* NotebookEdit._format_source
FormatSource(source_text) ==
    IF source_text = <<>> THEN <<>>
    ELSE LET lines == SplitLines(source_text)
             n == Len(lines)
             head == [k \in 1..(n - 1) |-> lines[k] \o <<NL>>]
         IN IF lines[n] = <<>> THEN head ELSE head \o <<lines[n]>>

ErrNbNotAbsolute == Res("Error:", "Notebook path must be absolute, not relative", 0, 0, <<>>)
ErrNbNotExist    == Res("Error:", "Notebook file does not exist", 0, 0, <<>>)
ErrNbNotAFile    == Res("Error:", "is not a file", 0, 0, <<>>)
ErrNbNotIpynb    == Res("Error:", "is not a Jupyter notebook (.ipynb) file", 0, 0, <<>>)
ErrNbCellType    == Res("Error:", "cell_type is required when edit_mode is 'insert'", 0, 0, <<>>)
ErrNbInvalidJson == Res("Error:", "Invalid JSON in notebook file", 0, 0, <<>>)
ErrNbNoCells     == Res("Error:", "Invalid notebook format - no 'cells' found", 0, 0, <<>>)
ErrNbCellNotFound == Res("Error:", "Cell with ID not found in notebook", 0, 0, <<>>)
ErrNbEmpty       == Res("Error:", "No cells in notebook and no cell_id specified", 0, 0, <<>>)
ErrNbDeleteIndex == Res("Error:", "Cannot delete cell - invalid index", 0, 0, <<>>)
ErrNbReplaceIndex == Res("Error:", "Cannot replace cell - invalid index", 0, 0, <<>>)
NbDeleted(k, type) == Res("Successfully", "deleted cell k (type)", k, 0, <<type>>)
NbInserted(type, k) == Res("Successfully", "inserted new type cell at position k", k, 0, <<type>>)
NbReplaced(k)    == Res("Successfully", "replaced cell k content", k, 0, <<>>)

(* ---------------------------- NotebookEdit ----------------------------- *)
\* The caller constructs NotebookEdit(notebook_path, cell_id, new_source,
\* cell_type, edit_mode) and calls run()
NotebookEditCall ==
    /\ pc = "idle"
    /\ Len(nb_cells) <= MaxCells
    /\ \E path \in NotebookPaths, cid \in CellIdInputs, src \in SourceInputs,
          type \in {None, "code", "markdown"},
          mode \in {"replace", "insert", "delete"} :
          /\ notebook_path' = path
          /\ cell_id' = cid
          /\ new_source' = src
          /\ cell_type' = type
          /\ edit_mode' = mode
    /\ tool' = "NotebookEdit"
    /\ pc' = "n_validate"
    /\ cells' = <<>>
    /\ target_index' = NoIndex
    /\ result' = NoResult
    /\ reads' = 0
    /\ writes' = 0
    /\ pre_nb' = <<nb_kind, nb_json, nb_cells>>
    /\ UNCHANGED <<textVars, seen, concVars, nbFile>>

\* NotebookEdit.run steps 1-4
NotebookEditValidate ==
    /\ pc = "n_validate"
    /\ IF ~IsAbs(notebook_path)
       THEN result' = ErrNbNotAbsolute /\ pc' = "done"
       ELSE IF nb_kind = "none"
       THEN result' = ErrNbNotExist /\ pc' = "done"
       ELSE IF nb_kind # "file"
       THEN result' = ErrNbNotAFile /\ pc' = "done"
       ELSE IF ~EndsWithIpynb(notebook_path)
       THEN result' = ErrNbNotIpynb /\ pc' = "done"
       ELSE IF edit_mode = "insert" /\ cell_type = None
       THEN result' = ErrNbCellType /\ pc' = "done"
       ELSE result' = result /\ pc' = "n_load"
    /\ UNCHANGED <<textVars, tool, reads, writes, seen, concVars, nbVars>>

\* NotebookEdit.run steps 5-6: the file is read and parsed
NotebookEditLoad ==
    /\ pc = "n_load"
    /\ reads' = reads + 1
    /\ IF nb_json = "invalid_json"
       THEN result' = ErrNbInvalidJson /\ pc' = "done" /\ UNCHANGED cells
       ELSE IF nb_json = "no_cells"
       THEN result' = ErrNbNoCells /\ pc' = "done" /\ UNCHANGED cells
       ELSE result' = result /\ pc' = "n_resolve" /\ cells' = nb_cells
    /\ UNCHANGED <<textVars, tool, writes, seen, concVars, nbFile, nbReq,
                   target_index, pre_nb>>

\* the 0-based index of the first cell of cs whose id is cid, NoIndex if none
FirstWithId(cs, cid) ==
    IF \E k \in 1..Len(cs) : cs[k].id = cid
    THEN (CHOOSE k \in 1..Len(cs) :
              cs[k].id = cid /\ \A h \in 1..(k - 1) : cs[h].id # cid) - 1
    ELSE NoIndex

\* mutant: a cell_id that is a valid position is taken as a position before
\* the ids are searched
ResolveEdit_PositionFirst(cs, cid) ==
    IF IsInt(cid) /\ IntOf(cid) < Len(cs) THEN IntOf(cid)
    ELSE FirstWithId(cs, cid)

\* NotebookEdit.run step 7 for a cell_id that is given: the 0-based index of
\* the target cell, NoIndex when the cell is not found
ResolveEdit(cs, cid) ==
    IF FirstWithId(cs, cid) # NoIndex THEN FirstWithId(cs, cid)
    ELSE IF IsInt(cid) /\ 0 <= IntOf(cid) /\ IntOf(cid) < Len(cs)
    THEN IntOf(cid)
    ELSE NoIndex

\* mutant: an insert whose cell_id is not found goes on and inserts at the
\* beginning instead of failing
NotebookEditResolve_InsertAnyway ==
    /\ pc = "n_resolve"
    /\ IF Truthy(cell_id)
       THEN IF ResolveEdit(cells, cell_id) = NoIndex /\ edit_mode # "insert"
            THEN /\ result' = ErrNbCellNotFound
                 /\ pc' = "done"
                 /\ UNCHANGED target_index
            ELSE /\ target_index' = ResolveEdit(cells, cell_id)
                 /\ result' = result
                 /\ pc' = "n_apply"
       ELSE IF edit_mode = "insert" \/ cells # <<>>
            THEN /\ target_index' = 0
                 /\ result' = result
                 /\ pc' = "n_apply"
            ELSE /\ result' = ErrNbEmpty
                 /\ pc' = "done"
                 /\ UNCHANGED target_index
    /\ UNCHANGED <<textVars, tool, reads, writes, seen, concVars, nbFile,
                   nbReq, cells, pre_nb>>

\* NotebookEdit.run step 7
NotebookEditResolve ==
    /\ pc = "n_resolve"
    /\ IF Truthy(cell_id)
       THEN IF ResolveEdit(cells, cell_id) = NoIndex
            THEN /\ result' = ErrNbCellNotFound
                 /\ pc' = "done"
                 /\ UNCHANGED target_index
            ELSE /\ target_index' = ResolveEdit(cells, cell_id)
                 /\ result' = result
                 /\ pc' = "n_apply"
       ELSE IF edit_mode = "insert" \/ cells # <<>>
            THEN /\ target_index' = 0
                 /\ result' = result
                 /\ pc' = "n_apply"
            ELSE /\ result' = ErrNbEmpty
                 /\ pc' = "done"
                 /\ UNCHANGED target_index
    /\ UNCHANGED <<textVars, tool, reads, writes, seen, concVars, nbFile,
                   nbReq, cells, pre_nb>>

\* mutant: the first cell is removed whatever the target
RemoveAt_First(cs, k) == SubSeq(cs, 2, Len(cs))

\* cells.pop(k), k a 0-based index: the list that remains
RemoveAt(cs, k) == SubSeq(cs, 1, k) \o SubSeq(cs, k + 2, Len(cs))

\* cells.insert(k, c), k a 0-based index
InsertAt(cs, k, c) ==
    IF k >= Len(cs) THEN cs \o <<c>>
    ELSE SubSeq(cs, 1, k) \o <<c>> \o SubSeq(cs, k + 1, Len(cs))

\* mutant: the new cell is put in front of the target cell
InsertPosition_Before ==
    IF Truthy(cell_id)
    THEN IF target_index # NoIndex THEN target_index ELSE 0
    ELSE 0

\* NotebookEdit.run step 8, insert: insert_position
InsertPosition ==
    IF Truthy(cell_id)
    THEN IF target_index # NoIndex THEN target_index + 1 ELSE 0
    ELSE 0

\* NotebookEdit.run step 8, insert: new_cell for a notebook of n cells
NewCell(n) ==
    [id |-> CellName(n),
     cell_type |-> cell_type,
     source |-> FormatSource(new_source),
     execution_count |-> IF cell_type = "code" THEN None ELSE Absent,
     outputs |-> IF cell_type = "code" THEN "empty" ELSE Absent]

\* dict.setdefault(key, v) on the value w the key has
SetDefault(w, v) == IF w = Absent THEN v ELSE w

\* mutant: a code cell turned into markdown keeps its code fields
ReplacedCell_KeepFields(c) ==
    LET c1 == [c EXCEPT !.source = FormatSource(new_source)]
    IN IF Truthy(cell_type)
       THEN LET c2 == [c1 EXCEPT !.cell_type = cell_type]
            IN IF cell_type = "code" /\ c.cell_type # "code"
               THEN [c2 EXCEPT
                       !.execution_count = SetDefault(c.execution_count, None),
                       !.outputs = SetDefault(c.outputs, "empty")]
               ELSE c2
       ELSE c1

\* NotebookEdit.run step 8, replace: the target cell after the replacement
ReplacedCell(c) ==
    LET c1 == [c EXCEPT !.source = FormatSource(new_source)]
    IN IF Truthy(cell_type)
       THEN LET c2 == [c1 EXCEPT !.cell_type = cell_type]
            IN IF cell_type = "code" /\ c.cell_type # "code"
               THEN [c2 EXCEPT
                       !.execution_count = SetDefault(c.execution_count, None),
                       !.outputs = SetDefault(c.outputs, "empty")]
               ELSE IF cell_type = "markdown" /\ c.cell_type = "code"
               THEN [c2 EXCEPT !.execution_count = Absent,
                               !.outputs = Absent]
               ELSE c2
       ELSE c1

\* NotebookEdit.run step 8: the edit is made on the parsed notebook; result
\* holds result_message, which is returned after the write
NotebookEditApply ==
    /\ pc = "n_apply"
    /\ IF edit_mode = "delete"
       THEN IF target_index = NoIndex \/ target_index >= Len(cells)
            THEN result' = ErrNbDeleteIndex /\ pc' = "done" /\ UNCHANGED cells
            ELSE /\ cells' = RemoveAt(cells, target_index)
                 /\ result' = NbDeleted(target_index,
                                        cells[target_index + 1].cell_type)
                 /\ pc' = "n_open"
       ELSE IF edit_mode = "insert"
       THEN /\ cells' = InsertAt(cells, InsertPosition, NewCell(Len(cells)))
            /\ result' = NbInserted(cell_type, InsertPosition)
            /\ pc' = "n_open"
       ELSE IF target_index = NoIndex \/ target_index >= Len(cells)
            THEN result' = ErrNbReplaceIndex /\ pc' = "done" /\ UNCHANGED cells
            ELSE /\ cells' = [cells EXCEPT ![target_index + 1] =
                                 ReplacedCell(cells[target_index + 1])]
                 /\ result' = NbReplaced(target_index)
                 /\ pc' = "n_open"
    /\ UNCHANGED <<textVars, tool, reads, writes, seen, concVars, nbFile,
                   nbReq, target_index, pre_nb>>

\* NotebookEdit.run step 9, open(notebook_path, 'w'): the file is truncated,
\* and an empty file is not JSON
NotebookEditOpen ==
    /\ pc = "n_open"
    /\ nb_kind' = "file"
    /\ nb_json' = "invalid_json"
    /\ nb_cells' = <<>>
    /\ writes' = writes + 1
    /\ pc' = "n_dump"
    /\ UNCHANGED <<textVars, tool, result, reads, seen, concVars, nbReq,
                   nbLoc, pre_nb>>

\* NotebookEdit.run step 9, json.dump(notebook_data) and close, and the
\* return of result_message
NotebookEditDump ==
    /\ pc = "n_dump"
    /\ nb_json' = "ok"
    /\ nb_cells' = cells
    /\ pc' = "done"
    /\ UNCHANGED <<textVars, tool, result, reads, writes, seen, concVars,
                   nb_kind, nbReq, nbLoc, pre_nb>>

(* ---------------------------- NotebookRead ----------------------------- *)
\* ''.join(source)
RECURSIVE Join(_)
Join(lines) == IF lines = <<>> THEN <<>> ELSE Head(lines) \o Join(Tail(lines))

\* str.rstrip() of a text whose only whitespace is the newline
RECURSIVE RStrip(_)
RStrip(t) ==
    IF t # <<>> /\ t[Len(t)] = NL THEN RStrip(SubSeq(t, 1, Len(t) - 1)) ELSE t

\* str(k) of a cell index
IndexName(k) ==
    CASE k = 0 -> "0" [] k = 1 -> "1" [] k = 2 -> "2" [] k = 3 -> "3"
      [] OTHER -> "N"

\* NotebookRead._format_cell(cell, label): what the rendering shows
FormatCell(cell, label) ==
    [label |-> label,
     cell_type |-> cell.cell_type,
     execution_count |-> IF cell.execution_count = Absent THEN None
                         ELSE cell.execution_count,
     source |-> RStrip(Join(cell.source)),
     outputs |-> cell.cell_type = "code" /\ cell.outputs = "some"]

NbCell(cell, label) == Res("=== Cell", "one cell", 0, 1, <<FormatCell(cell, label)>>)
NbAllCells(cs) ==
    Res("Jupyter Notebook:", "Total cells: n", 0, Len(cs),
        [k \in 1..Len(cs) |-> FormatCell(cs[k], IndexName(k - 1))])

\* NotebookRead.run step 6, the loop over the cells from the k-th on: the
\* 0-based index of target_cell, NoIndex when it stays None
RECURSIVE ScanRead(_, _, _)
ScanRead(cs, cid, k) ==
    IF k > Len(cs) THEN NoIndex
    ELSE IF cs[k].id = cid THEN k - 1
    ELSE IF IsInt(cid) /\ 0 <= IntOf(cid) /\ IntOf(cid) < Len(cs)
    THEN IntOf(cid)
    ELSE ScanRead(cs, cid, k + 1)

\* NotebookRead.run step 6
ResolveRead(cs, cid) == ScanRead(cs, cid, 1)

\* The caller constructs NotebookRead(notebook_path, cell_id) and calls run()
NotebookReadCall ==
    /\ pc = "idle"
    /\ Len(nb_cells) <= MaxCells
    /\ \E path \in NotebookPaths, cid \in CellIdInputs :
          /\ notebook_path' = path
          /\ cell_id' = cid
    /\ tool' = "NotebookRead"
    /\ pc' = "r_validate"
    /\ cells' = <<>>
    /\ target_index' = NoIndex
    /\ result' = NoResult
    /\ reads' = 0
    /\ writes' = 0
    /\ pre_nb' = <<nb_kind, nb_json, nb_cells>>
    /\ UNCHANGED <<textVars, seen, concVars, nbFile, new_source, cell_type,
                   edit_mode>>

\* mutant: a missing notebook is created empty before the error is returned
NotebookReadValidate_Touch ==
    /\ pc = "r_validate"
    /\ IF ~IsAbs(notebook_path)
       THEN result' = ErrNbNotAbsolute /\ pc' = "done"
       ELSE IF nb_kind = "none"
       THEN result' = ErrNbNotExist /\ pc' = "done"
       ELSE IF nb_kind # "file"
       THEN result' = ErrNbNotAFile /\ pc' = "done"
       ELSE IF ~EndsWithIpynb(notebook_path)
       THEN result' = ErrNbNotIpynb /\ pc' = "done"
       ELSE result' = result /\ pc' = "r_load"
    /\ IF IsAbs(notebook_path) /\ nb_kind = "none"
       THEN /\ nb_kind' = "file"
            /\ nb_json' = "invalid_json"
            /\ writes' = writes + 1
       ELSE UNCHANGED <<nb_kind, nb_json, writes>>
    /\ UNCHANGED <<textVars, tool, reads, seen, concVars, nb_cells, nbReq,
                   nbLoc, pre_nb>>

\* NotebookRead.run steps 1-3
NotebookReadValidate ==
    /\ pc = "r_validate"
    /\ IF ~IsAbs(notebook_path)
       THEN result' = ErrNbNotAbsolute /\ pc' = "done"
       ELSE IF nb_kind = "none"
       THEN result' = ErrNbNotExist /\ pc' = "done"
       ELSE IF nb_kind # "file"
       THEN result' = ErrNbNotAFile /\ pc' = "done"
       ELSE IF ~EndsWithIpynb(notebook_path)
       THEN result' = ErrNbNotIpynb /\ pc' = "done"
       ELSE result' = result /\ pc' = "r_load"
    /\ UNCHANGED <<textVars, tool, reads, writes, seen, concVars, nbVars>>

\* NotebookRead.run steps 4-7: the file is read and parsed, the cell is
\* looked up and rendered
NotebookReadRun ==
    /\ pc = "r_load"
    /\ reads' = reads + 1
    /\ pc' = "done"
    /\ IF nb_json = "invalid_json"
       THEN result' = ErrNbInvalidJson /\ UNCHANGED nbLoc
       ELSE IF nb_json = "no_cells"
       THEN result' = ErrNbNoCells /\ UNCHANGED nbLoc
       ELSE /\ cells' = nb_cells
            /\ IF Truthy(cell_id)
               THEN /\ target_index' = ResolveRead(nb_cells, cell_id)
                    /\ result' =
                         IF ResolveRead(nb_cells, cell_id) = NoIndex
                         THEN ErrNbCellNotFound
                         ELSE NbCell(nb_cells[ResolveRead(nb_cells, cell_id) + 1],
                                     cell_id)
               ELSE /\ target_index' = NoIndex
                    /\ result' = NbAllCells(nb_cells)
    /\ UNCHANGED <<textVars, tool, writes, seen, concVars, nbFile, nbReq,
                   pre_nb>>

(* ------------------------- source normalization ------------------------ *)
\* the longest new_source that is normalized
MaxSource == 4

\* the characters of a source text: two letters and the line terminator
SourceChars == {"x", "y", NL}

SourceTexts(n) == UNION {[1..k -> SourceChars] : k \in 0..n}

\* self._format_source(self.new_source) is evaluated
FormatSourceRun ==
    /\ pc = "idle"
    /\ tool' = "_format_source"
    /\ formatted_lines' = <<FormatSource(new_source)>>
    /\ pc' = "done"
    /\ UNCHANGED <<fsVars, file_path_abs, editReq, edits, content, editLoc,
                   multiLoc, ghost, result, reads, writes, seen, concVars,
                   nbVars, offset, limit, todos>>

(* ------------------------------ TodoWrite ------------------------------ *)
\* the longest todo list that is written
MaxTodos == 8

Statuses   == {"pending", "in_progress", "completed"}
Priorities == <<"high", "medium", "low">>

\* TodoItem: the ids of a list are all different, or the last item repeats
\* the id of the first
IdChoices(k) ==
    {[j \in 1..k |-> ToString(j)],
     [j \in 1..k |-> IF j = k THEN "1" ELSE ToString(j)]}

\* TodoItem: the priorities of a list descend, ascend or are all medium
PriorityChoices(k) ==
    {[j \in 1..k |-> Priorities[((j - 1) % 3) + 1]],
     [j \in 1..k |-> Priorities[3 - ((j - 1) % 3)]],
     [j \in 1..k |-> "medium"]}

\* the list of k TodoItems with the given statuses, priorities and ids
TodoItems(k, st, pr, ids) ==
    [j \in 1..k |-> [content |-> "task " \o ToString(j),
                     status |-> st[j],
                     priority |-> pr[j],
                     id |-> ids[j]]]

\* one line of the returned text
TodoLine(kind, todo, nums) ==
    [kind |-> kind, status |-> todo.status, id |-> todo.id,
     priority |-> todo.priority, content |-> todo.content, nums |-> nums]

NoTodo == [content |-> "", status |-> "", priority |-> "", id |-> ""]

ErrTodoEmpty     == Res("Error:", "Todo list cannot be empty", 0, 0, <<>>)
ErrTodoDuplicate == Res("Error:", "All todo items must have unique IDs", 0, 0, <<>>)
WarnInProgress(items) ==
    Res("Warning:", "Multiple tasks marked as in_progress", 0, Len(items),
        [k \in 1..Len(items) |-> TodoLine("- item", items[k], <<>>)])
TodoList(lines) == Res("=== TODO LIST ===", "rendered", 0, 0, lines)

\* [todo for todo in self.todos if todo.status == status]
WithStatus(ts, status) == SelectSeq(ts, LAMBDA t : t.status = status)

\* status_counts[status]
StatusCount(ts, status) == Len(WithStatus(ts, status))

\* len(ids) != len(set(ids))
DuplicateIds(ts) == Cardinality({ts[k].id : k \in 1..Len(ts)}) # Len(ts)

\* list.sort(key=priority_order): a stable sort on the three priorities
SortByPriority(ts) ==
    SelectSeq(ts, LAMBDA t : t.priority = "high")
    \o SelectSeq(ts, LAMBDA t : t.priority = "medium")
    \o SelectSeq(ts, LAMBDA t : t.priority = "low")

\* mutant: the percentage is cut off, not rounded
PercentFormat_Truncate(c, n) == (100 * c) \div n

\* f"{completed / total * 100:.0f}": the quotient rounded to the nearest
\* integer, a tie to the even one
PercentFormat(c, n) ==
    LET q == (100 * c) \div n
        r == (100 * c) % n
    IN IF 2 * r < n THEN q
       ELSE IF 2 * r > n THEN q + 1
       ELSE IF q % 2 = 0 THEN q ELSE q + 1

\* the lines of one status group: header, items by priority, blank line
StatusGroup(ts, status) ==
    LET status_todos == SortByPriority(WithStatus(ts, status))
    IN IF status_todos = <<>> THEN <<>>
       ELSE <<TodoLine("header", [NoTodo EXCEPT !.status = status],
                       <<Len(status_todos)>>)>>
            \o [k \in 1..Len(status_todos) |->
                    TodoLine("item", status_todos[k], <<>>)]
            \o <<TodoLine("blank", NoTodo, <<>>)>>

\* the PROGRESS line
ProgressLine(ts) ==
    LET total_todos == Len(ts)
        completed_todos == StatusCount(ts, "completed")
    IN TodoLine("progress", NoTodo,
                <<completed_todos, total_todos,
                  IF total_todos > 0
                  THEN PercentFormat(completed_todos, total_todos) ELSE 0>>)

\* the CURRENT FOCUS / NEXT UP / all-completed line
FocusLine(ts) ==
    IF StatusCount(ts, "in_progress") > 0
    THEN TodoLine("CURRENT FOCUS", WithStatus(ts, "in_progress")[1], <<>>)
    ELSE IF StatusCount(ts, "pending") > 0
    THEN TodoLine("NEXT UP", SortByPriority(WithStatus(ts, "pending"))[1], <<>>)
    ELSE TodoLine("All tasks completed!", NoTodo, <<>>)

\* The caller constructs TodoWrite(todos) and calls run()
TodoWriteCall ==
    /\ pc = "idle"
    /\ \E k \in 0..MaxTodos :
          \E st \in [1..k -> Statuses], pr \in PriorityChoices(k),
             ids \in IdChoices(k) :
              todos' = TodoItems(k, st, pr, ids)
    /\ tool' = "TodoWrite"
    /\ pc' = "t_validate"
    /\ result' = NoResult
    /\ UNCHANGED <<fsVars, editState, reads, writes, seen, concVars, nbVars,
                   offset, limit, formatted_lines>>

\* mutant: the in_progress constraint is not checked
TodoWriteValidate_NoLimit ==
    /\ pc = "t_validate"
    /\ IF todos = <<>>
       THEN result' = ErrTodoEmpty /\ pc' = "done"
       ELSE IF DuplicateIds(todos)
       THEN result' = ErrTodoDuplicate /\ pc' = "done"
       ELSE result' = result /\ pc' = "t_render"
    /\ UNCHANGED <<fsVars, editState, tool, reads, writes, seen, concVars,
                   nbVars, moreVars>>

\* TodoWrite.run steps 1-4
TodoWriteValidate ==
    /\ pc = "t_validate"
    /\ IF todos = <<>>
       THEN result' = ErrTodoEmpty /\ pc' = "done"
       ELSE IF DuplicateIds(todos)
       THEN result' = ErrTodoDuplicate /\ pc' = "done"
       ELSE IF StatusCount(todos, "in_progress") > 1
       THEN /\ result' = WarnInProgress(WithStatus(todos, "in_progress"))
            /\ pc' = "done"
       ELSE result' = result /\ pc' = "t_render"
    /\ UNCHANGED <<fsVars, editState, tool, reads, writes, seen, concVars,
                   nbVars, moreVars>>

\* TodoWrite.run steps 5-7
TodoWriteRender ==
    /\ pc = "t_render"
    /\ result' = TodoList(<<TodoLine("title", NoTodo, <<>>)>>
                          \o StatusGroup(todos, "in_progress")
                          \o StatusGroup(todos, "pending")
                          \o StatusGroup(todos, "completed")
                          \o <<ProgressLine(todos), FocusLine(todos)>>)
    /\ pc' = "done"
    /\ UNCHANGED <<fsVars, editState, tool, reads, writes, seen, concVars,
                   nbVars, moreVars>>

(* -------------------------------- Write -------------------------------- *)
ErrWriteNotAFile == Res("Error:", "exists but is not a file (might be a directory)", 0, 0, <<>>)
WriteOverwrote(n) == Res("Successfully", "overwrote file (n bytes)", 0, n, <<>>)
WriteCreated(n)   == Res("Successfully", "created file (n bytes)", 0, n, <<>>)

\* The caller constructs Write(file_path, content) and calls run()
WriteCall ==
    /\ pc = "idle"
    /\ \E abs \in BOOLEAN, c \in StrUpTo(MaxStr) :
          /\ file_path_abs' = abs
          /\ content' = c
    /\ tool' = "Write"
    /\ pc' = "w_validate"
    /\ file_exists' = FALSE
    /\ result' = NoResult
    /\ reads' = 0
    /\ writes' = 0
    /\ pre_kind' = fkind
    /\ pre_dir' = dir_exists
    /\ pre_content' = fcontent
    /\ UNCHANGED <<fsVars, editReq, edits, editLoc, validation_content,
                   current_content, i, edit_results, rt_orig, others>>

\* mutant: the parent directory is created before the path is validated
WriteValidate_DirFirst ==
    /\ pc = "w_validate"
    /\ dir_exists' = TRUE
    /\ IF ~file_path_abs
       THEN result' = ErrNotAbsolute /\ pc' = "done" /\ UNCHANGED file_exists
       ELSE /\ file_exists' = (fkind # "none")
            /\ IF fkind = "dir"
               THEN result' = ErrWriteNotAFile /\ pc' = "done"
               ELSE result' = result /\ pc' = "w_open"
    /\ UNCHANGED <<fkind, fcontent, tool, file_path_abs, editReq, edits,
                   content, editLoc, validation_content, current_content, i,
                   edit_results, reads, writes, ghost, others>>

\* Write.run steps 1-3
WriteValidate ==
    /\ pc = "w_validate"
    /\ IF ~file_path_abs
       THEN result' = ErrNotAbsolute /\ pc' = "done" /\ UNCHANGED file_exists
       ELSE /\ file_exists' = (fkind # "none")
            /\ IF fkind = "dir"
               THEN result' = ErrWriteNotAFile /\ pc' = "done"
               ELSE result' = result /\ pc' = "w_open"
    /\ UNCHANGED <<fsVars, tool, file_path_abs, editReq, edits, content,
                   editLoc, validation_content, current_content, i,
                   edit_results, reads, writes, ghost, others>>

\* Write.run step 4 and the open of step 5: a missing parent directory is
\* made, and open(file_path, 'w') creates the file or truncates it
WriteOpen ==
    /\ pc = "w_open"
    /\ dir_exists' = TRUE
    /\ fkind' = "file"
    /\ fcontent' = <<>>
    /\ writes' = writes + 1
    /\ pc' = "w_write"
    /\ UNCHANGED <<tool, file_path_abs, editReq, edits, content, editLoc,
                   multiLoc, result, reads, ghost, others>>

\* Write.run steps 5-7: file.write(content), getsize, the success message
WriteWrite ==
    /\ pc = "w_write"
    /\ fcontent' = WriteAtStart(fcontent, content)
    /\ result' = IF file_exists THEN WriteOverwrote(Len(fcontent'))
                 ELSE WriteCreated(Len(fcontent'))
    /\ pc' = "done"
    /\ UNCHANGED <<fkind, dir_exists, tool, file_path_abs, editReq, edits,
                   content, editLoc, multiLoc, reads, writes, ghost, others>>

(* -------------------------------- Read --------------------------------- *)
\* Read.offset and Read.limit: 0 stands for None, which run() treats alike
Offsets == {-1, 0, 1, 2}
Limits  == {0, 1, 2}

\* default_limit
DefaultLimit == 2000

ReadEmpty == Res("File is empty.", "", 0, 0, <<>>)
ReadRange(from, to, total, lines) ==
    Res("File:", "showing lines from-to of total", from, total, lines)
ReadFirst(total, lines) ==
    Res("File:", "showing first k lines of total", 1, total, lines)
ReadWhole(total, lines) == Res("File:", "total lines", 1, total, lines)

\* file.readlines(): the file holds no line terminator, so it is one line
\* unless it is empty
ReadLines(c) == IF c = <<>> THEN <<>> ELSE <<c>>

\* lines[start:end]
Slice(ls, start, end) ==
    LET lo == IF start > Len(ls) THEN Len(ls) ELSE start
        hi == IF end > Len(ls) THEN Len(ls) ELSE IF end < lo THEN lo ELSE end
    IN SubSeq(ls, lo + 1, hi)

\* Read.run steps 6-8 on the lines of a file that is not empty
ReadOutput(lines, off, lim) ==
    LET start_line == IF off # 0 /\ off - 1 >= 0 THEN off - 1 ELSE 0
        end_line == IF lim # 0 THEN start_line + lim
                    ELSE IF start_line + DefaultLimit < Len(lines)
                    THEN start_line + DefaultLimit ELSE Len(lines)
        selected_lines == Slice(lines, start_line, end_line)
        output_lines == [k \in 1..Len(selected_lines) |->
                            [line_num |-> start_line + k,
                             line_content |-> selected_lines[k]]]
    IN IF off # 0 \/ lim # 0
       THEN ReadRange(start_line + 1, start_line + Len(selected_lines),
                      Len(lines), output_lines)
       ELSE IF Len(selected_lines) < Len(lines)
       THEN ReadFirst(Len(lines), output_lines)
       ELSE ReadWhole(Len(lines), output_lines)

\* The caller constructs Read(file_path, offset, limit) and calls run()
ReadCall ==
    /\ pc = "idle"
    /\ \E abs \in BOOLEAN, off \in Offsets, lim \in Limits :
          /\ file_path_abs' = abs
          /\ offset' = off
          /\ limit' = lim
    /\ tool' = "Read"
    /\ pc' = "rd_validate"
    /\ result' = NoResult
    /\ reads' = 0
    /\ writes' = 0
    /\ pre_kind' = fkind
    /\ pre_dir' = dir_exists
    /\ pre_content' = fcontent
    /\ UNCHANGED <<fsVars, editReq, edits, content, editLoc, multiLoc,
                   rt_orig, seen, concVars, nbVars, todos, formatted_lines>>

\* Read.run steps 1-3
ReadValidate ==
    /\ pc = "rd_validate"
    /\ IF ~file_path_abs
       THEN result' = ErrNotAbsolute /\ pc' = "done"
       ELSE IF fkind = "none"
       THEN result' = ErrNotExist /\ pc' = "done"
       ELSE IF fkind # "file"
       THEN result' = ErrNotAFile /\ pc' = "done"
       ELSE result' = result /\ pc' = "rd_read"
    /\ UNCHANGED <<fsVars, editState, tool, reads, writes, others>>

\* Read.run steps 4-8
ReadRun ==
    /\ pc = "rd_read"
    /\ reads' = reads + 1
    /\ result' = IF ReadLines(fcontent) = <<>> THEN ReadEmpty
                 ELSE ReadOutput(ReadLines(fcontent), offset, limit)
    /\ pc' = "done"
    /\ UNCHANGED <<fsVars, editState, tool, writes, others>>

(* ------------------------- a concurrent reader ------------------------- *)
\* Another agent runs Read on the same path while the invocation is in
\* progress: open(file_path, 'r') and readlines() return what the file holds
\* at that moment
ReaderRead ==
    /\ pc # "idle"
    /\ tool \in {"Edit", "MultiEdit"}
    /\ seen = <<>>
    /\ seen' = <<[kind |-> fkind, content |-> fcontent]>>
    /\ UNCHANGED <<textVars, tool, pc, result, reads, writes, concVars, nbVars>>

(* -------------------- a second, concurrent Edit call -------------------- *)
\* Two agents call Edit on the same file.  The first invocation is the one
\* of the section Edit; the second runs the same code on its own locals.
ShortStrings == StrUpTo(1)

\* The first agent invokes Edit
EditCallShort ==
    /\ pc = "idle"
    /\ \E o \in ShortStrings, n \in ShortStrings, ra \in BOOLEAN :
          EditBegin(TRUE, o, n, ra, <<>>)

\* The second agent invokes Edit on the same absolute path
OtherCall ==
    /\ b_pc = "idle"
    /\ pc # "idle"
    /\ \E o \in ShortStrings, n \in ShortStrings, ra \in BOOLEAN :
          /\ b_old_string' = o
          /\ b_new_string' = n
          /\ b_replace_all' = ra
    /\ b_pc' = "e_validate"
    /\ UNCHANGED <<textVars, tool, pc, result, reads, writes, seen, b_content,
                   b_new_content, b_result, b_writes, nbVars>>

\* Edit.run steps 1-4 of the second invocation
OtherValidate ==
    /\ b_pc = "e_validate"
    /\ IF b_old_string = b_new_string
       THEN b_result' = ErrNoOp /\ b_pc' = "done"
       ELSE IF fkind = "none"
       THEN b_result' = ErrNotExist /\ b_pc' = "done"
       ELSE IF fkind # "file"
       THEN b_result' = ErrNotAFile /\ b_pc' = "done"
       ELSE b_result' = b_result /\ b_pc' = "e_read"
    /\ UNCHANGED <<textVars, tool, pc, result, reads, writes, seen,
                   b_old_string, b_new_string, b_replace_all, b_content,
                   b_new_content, b_writes, nbVars>>

\* Edit.run step 5 of the second invocation
OtherRead ==
    /\ b_pc = "e_read"
    /\ b_content' = fcontent
    /\ b_pc' = "e_replace"
    /\ UNCHANGED <<textVars, tool, pc, result, reads, writes, seen,
                   b_old_string, b_new_string, b_replace_all, b_new_content,
                   b_result, b_writes, nbVars>>

\* Edit.run steps 6-8 of the second invocation
OtherReplace ==
    /\ b_pc = "e_replace"
    /\ IF ~Contains(b_content, b_old_string)
       THEN b_result' = ErrTextNotFound /\ b_pc' = "done"
            /\ UNCHANGED b_new_content
       ELSE IF ~b_replace_all /\ Count(b_content, b_old_string) > 1
       THEN b_result' = ErrAmbiguous(Count(b_content, b_old_string))
            /\ b_pc' = "done" /\ UNCHANGED b_new_content
       ELSE /\ b_new_content' =
                   IF b_replace_all
                   THEN ReplaceAll(b_content, b_old_string, b_new_string)
                   ELSE ReplaceFirst(b_content, b_old_string, b_new_string)
            /\ b_result' = b_result
            /\ b_pc' = "e_open"
    /\ UNCHANGED <<textVars, tool, pc, result, reads, writes, seen,
                   b_old_string, b_new_string, b_replace_all, b_content,
                   b_writes, nbVars>>

\* Edit.run step 9 of the second invocation, open(file_path, 'w')
OtherOpen ==
    /\ b_pc = "e_open"
    /\ fkind' = "file"
    /\ fcontent' = <<>>
    /\ b_writes' = b_writes + 1
    /\ b_pc' = "e_write"
    /\ UNCHANGED <<file_path_abs, editReq, edits, content, editLoc, multiLoc,
                   ghost, tool, pc, result, reads, writes, seen,
                   b_old_string, b_new_string, b_replace_all, b_content,
                   b_new_content, b_result, nbVars>>
    /\ UNCHANGED <<dir_exists, moreVars>>

\* Edit.run step 9, file.write(new_content) and close, and step 10 of the
\* second invocation
OtherWrite ==
    /\ b_pc = "e_write"
    /\ fcontent' = WriteAtStart(fcontent, b_new_content)
    /\ b_result' = EditOk(IF b_replace_all
                          THEN Count(b_content, b_old_string) ELSE 1)
    /\ b_pc' = "done"
    /\ UNCHANGED <<fkind, file_path_abs, editReq, edits, content, editLoc,
                   multiLoc, ghost, tool, pc, result, reads, writes, seen,
                   b_old_string, b_new_string, b_replace_all, b_content,
                   b_new_content, b_writes, nbVars>>
    /\ UNCHANGED <<dir_exists, moreVars>>

(* --------------------------- specifications ---------------------------- *)
FileStates(n) ==
    {<<"none", <<>>>>, <<"dir", <<>>>>} \cup {<<"file", c>> : c \in StrUpTo(n)}

\* no invocation is in progress (new_source apart)
IdleButSource ==
    /\ tool = "none"
    /\ pc = "idle"
    /\ file_path_abs = TRUE
    /\ old_string = <<>>
    /\ new_string = <<>>
    /\ replace_all = FALSE
    /\ edits = <<>>
    /\ file_exists = FALSE
    /\ content = <<>>
    /\ new_content = <<>>
    /\ replacement_count = 0
    /\ validation_content = <<>>
    /\ current_content = <<>>
    /\ i = 0
    /\ edit_results = <<>>
    /\ result = NoResult
    /\ reads = 0
    /\ writes = 0
    /\ pre_kind = "none"
    /\ pre_dir = TRUE
    /\ pre_content = <<>>
    /\ rt_orig = <<>>
    /\ seen = <<>>
    /\ b_pc = "idle"
    /\ b_old_string = <<>>
    /\ b_new_string = <<>>
    /\ b_replace_all = FALSE
    /\ b_content = <<>>
    /\ b_new_content = <<>>
    /\ b_result = NoResult
    /\ b_writes = 0
    /\ notebook_path = "/absolute.ipynb"
    /\ cell_id = None
    /\ cell_type = None
    /\ edit_mode = "replace"
    /\ cells = <<>>
    /\ target_index = NoIndex
    /\ pre_nb = <<>>
    /\ offset = 0
    /\ limit = 0
    /\ todos = <<>>
    /\ formatted_lines = <<>>

\* no invocation is in progress
NoInvocation == IdleButSource /\ new_source = <<>>

InitWith(n) ==
    /\ \E f \in FileStates(n) : fkind = f[1] /\ fcontent = f[2]
    /\ dir_exists = TRUE
    /\ nb_kind = "none"
    /\ nb_json = "ok"
    /\ nb_cells = <<>>
    /\ NoInvocation

InitEdit == InitWith(MaxLen)

NextEdit ==
    \/ EditCall
    \/ EditCallUndo
    \/ EditValidate
    \/ EditRead
    \/ EditReplace
    \/ EditOpen
    \/ EditWrite
    \/ Return

SpecEdit == InitEdit /\ [][NextEdit]_vars

InitMulti == InitWith(MaxMultiLen)

NextMulti ==
    \/ MultiEditCall
    \/ MultiEditValidatePath
    \/ MultiEditRead
    \/ MultiEditValidateStep
    \/ MultiEditApplyStep
    \/ MultiEditOpen
    \/ MultiEditWrite
    \/ Return

SpecMulti == InitMulti /\ [][NextMulti]_vars

InitReader == InitWith(MaxMultiLen)

NextReader ==
    \/ EditCall
    \/ EditValidate
    \/ EditRead
    \/ EditReplace
    \/ EditOpen
    \/ EditWrite
    \/ MultiEditCall
    \/ MultiEditValidatePath
    \/ MultiEditRead
    \/ MultiEditValidateStep
    \/ MultiEditApplyStep
    \/ MultiEditOpen
    \/ MultiEditWrite
    \/ ReaderRead
    \/ Return

SpecReader == InitReader /\ [][NextReader]_vars

InitConcurrent == InitWith(MaxMultiLen)

NextConcurrent ==
    \/ EditCallShort
    \/ EditValidate
    \/ EditRead
    \/ EditReplace
    \/ EditOpen
    \/ EditWrite
    \/ OtherCall
    \/ OtherValidate
    \/ OtherRead
    \/ OtherReplace
    \/ OtherOpen
    \/ OtherWrite

SpecConcurrent == InitConcurrent /\ [][NextConcurrent]_vars

NotebookFiles(n) ==
    {<<"none", "ok", <<>>>>, <<"dir", "ok", <<>>>>,
     <<"file", "invalid_json", <<>>>>, <<"file", "no_cells", <<>>>>}
    \cup {<<"file", "ok", cs>> : cs \in CellLists(n)}

InitNotebook ==
    /\ fkind = "none"
    /\ fcontent = <<>>
    /\ dir_exists = TRUE
    /\ \E f \in NotebookFiles(MaxCells) :
          nb_kind = f[1] /\ nb_json = f[2] /\ nb_cells = f[3]
    /\ NoInvocation

NextNotebook ==
    \/ NotebookEditCall
    \/ NotebookEditValidate
    \/ NotebookEditLoad
    \/ NotebookEditResolve
    \/ NotebookEditApply
    \/ NotebookEditOpen
    \/ NotebookEditDump
    \/ NotebookReadCall
    \/ NotebookReadValidate
    \/ NotebookReadRun

SpecNotebook == InitNotebook /\ [][NextNotebook]_vars

InitSource ==
    /\ fkind = "none"
    /\ fcontent = <<>>
    /\ dir_exists = TRUE
    /\ nb_kind = "none"
    /\ nb_json = "ok"
    /\ nb_cells = <<>>
    /\ IdleButSource
    /\ new_source \in SourceTexts(MaxSource)

NextSource == FormatSourceRun

SpecSource == InitSource /\ [][NextSource]_vars

InitTodo == InitSource /\ new_source = <<>>

NextTodo ==
    \/ TodoWriteCall
    \/ TodoWriteValidate
    \/ TodoWriteRender

SpecTodo == InitTodo /\ [][NextTodo]_vars

\* the file at file_path with its parent directory, or the notebook at
\* notebook_path (of one cell at most)
InitPaths ==
    /\ \/ /\ \E f \in FileStates(MaxMultiLen) : fkind = f[1] /\ fcontent = f[2]
          /\ dir_exists \in BOOLEAN
          /\ fkind # "none" => dir_exists
          /\ nb_kind = "none" /\ nb_json = "ok" /\ nb_cells = <<>>
       \/ /\ fkind = "none" /\ fcontent = <<>> /\ dir_exists = TRUE
          /\ \E f \in NotebookFiles(1) :
                nb_kind = f[1] /\ nb_json = f[2] /\ nb_cells = f[3]
    /\ NoInvocation

NextPaths ==
    \/ EditCall
    \/ EditValidate
    \/ EditRead
    \/ EditReplace
    \/ EditOpen
    \/ EditWrite
    \/ MultiEditCall
    \/ MultiEditValidatePath
    \/ MultiEditRead
    \/ MultiEditValidateStep
    \/ MultiEditApplyStep
    \/ MultiEditOpen
    \/ MultiEditWrite
    \/ WriteCall
    \/ WriteValidate
    \/ WriteOpen
    \/ WriteWrite
    \/ ReadCall
    \/ ReadValidate
    \/ ReadRun
    \/ NotebookEditCall
    \/ NotebookEditValidate
    \/ NotebookEditLoad
    \/ NotebookEditResolve
    \/ NotebookEditApply
    \/ NotebookEditOpen
    \/ NotebookEditDump
    \/ NotebookReadCall
    \/ NotebookReadValidate
    \/ NotebookReadRun

SpecPaths == InitPaths /\ [][NextPaths]_vars

Init == InitEdit

Next ==
    \/ NextEdit
    \/ NextMulti
    \/ NextReader
    \/ NextConcurrent
    \/ NextNotebook
    \/ NextSource
    \/ NextTodo
    \/ NextPaths

Spec == Init /\ [][Next]_vars

(* ----------------------- reference definitions ------------------------- *)
\* What the properties below mean by an occurrence, a substitution and the
\* fold of a list of operations, stated on positions rather than computed
\* by the scan of the str methods.

\* the positions at which s occurs in c
Positions(c, s) ==
    {p \in 1..(Len(c) - Len(s) + 1) : SubSeq(c, p, p + Len(s) - 1) = s}

\* the occurrences of s in c that do not overlap an occurrence to their
\* left that is itself counted
Matches(c, s) ==
    LET sel[p \in 1..(Len(c) + 1)] ==
            /\ p \in Positions(c, s)
            /\ \A q \in 1..(p - 1) : q > p - Len(s) => ~sel[q]
    IN {p \in 1..(Len(c) + 1) : sel[p]}

\* c with t put in place of s at the positions G (pairwise disjoint
\* occurrences of s)
SubstituteAt(c, G, s, t) ==
    LET rest[p \in 1..(Len(c) + 1)] ==
            IF p \in G
            THEN IF s = <<>>
                 THEN IF p <= Len(c) THEN t \o <<c[p]>> \o rest[p + 1] ELSE t
                 ELSE t \o rest[p + Len(s)]
            ELSE IF p <= Len(c) THEN <<c[p]>> \o rest[p + 1] ELSE <<>>
    IN rest[1]

First(P) == CHOOSE p \in P : \A q \in P : p <= q

\* the effect of one operation on c
RefApply(c, op) ==
    LET P == Positions(c, op.old_string)
    IN IF P = {} THEN c
       ELSE IF op.replace_all
       THEN SubstituteAt(c, Matches(c, op.old_string), op.old_string, op.new_string)
       ELSE SubstituteAt(c, {First(P)}, op.old_string, op.new_string)

\* c after the first k operations of ops, each applied to the output of the
\* previous one
RECURSIVE RefFold(_, _, _)
RefFold(c, ops, k) ==
    IF k = 0 THEN c ELSE RefApply(RefFold(c, ops, k - 1), ops[k])

\* an operation that is invalid against c: a no-op, an absent old_string,
\* or more than one match without replace_all
RefInvalid(c, op) ==
    \/ op.old_string = op.new_string
    \/ Positions(c, op.old_string) = {}
    \/ ~op.replace_all /\ Cardinality(Matches(c, op.old_string)) > 1

\* the content the operations of a call start from
InitialText == IF pre_kind = "file" THEN pre_content ELSE <<>>

\* some operation k is invalid against the content produced by 0..k-1
SomeInvalid ==
    \E k \in 1..Len(edits) :
        RefInvalid(RefFold(InitialText, edits, k - 1), edits[k])

\* the file is what it was when the tool was called
FileAsBefore == fkind = pre_kind /\ fcontent = pre_content

Succeeded == result.prefix = "Successfully"
Failed    == result.prefix \in {"Error:", "Error in edit"}

InMultiEdit == tool = "MultiEdit"
InEdit      == tool = "Edit"

(* ------------------------------ MultiEdit ------------------------------ *)
\* C1: MultiEdit is all-or-nothing.  Whenever some operation k of the call
\* is invalid against the content produced by operations 0..k-1, the file
\* is, in every state of the invocation, exactly what it was before the call
\* (a missing file stays missing), and the call returns an error.
C1_AllOrNothing ==
    (InMultiEdit /\ SomeInvalid) =>
        /\ FileAsBefore
        /\ writes = 0
        /\ pc = "done" => Failed

\* C1 witness: a call on an existing file whose first operation is valid and
\* whose second is not has returned its error.
C1_Witness ==
    /\ InMultiEdit /\ pc = "done" /\ pre_kind = "file" /\ file_path_abs
    /\ Len(edits) >= 2
    /\ ~RefInvalid(pre_content, edits[1])
    /\ RefApply(pre_content, edits[1]) # pre_content
    /\ RefInvalid(RefApply(pre_content, edits[1]), edits[2])
    /\ result.prefix = "Error in edit" /\ result.idx = 2

\* C2: in a MultiEdit invocation the file is opened for writing at most
\* once, only after the validation pass went through every operation and
\* found each valid; no write happens before or between operations; a
\* successful call has written exactly once and a failed one never.
C2_SingleWrite ==
    InMultiEdit =>
        /\ writes <= 1
        /\ writes = 1 =>
              /\ pc \in {"m_write", "done"}
              /\ edits # <<>> /\ ~SomeInvalid
              /\ validation_content = RefFold(InitialText, edits, Len(edits))
        /\ pc \in {"m_validate_path", "m_read", "m_validate", "m_apply", "m_open"}
              => writes = 0 /\ FileAsBefore
        /\ pc = "done" => (Succeeded <=> writes = 1) /\ (Failed <=> writes = 0)

\* C2 witness: a successful call with two operations has written once.
C2_Witness ==
    /\ InMultiEdit /\ pc = "done" /\ Succeeded /\ writes = 1
    /\ Len(edits) >= 2 /\ fcontent # pre_content

\* C3: when MultiEdit succeeds on an existing file the file holds the
\* left-to-right fold of the operations over the initial content, and a
\* list whose operations are each valid against the output of the previous
\* ones (also when an old_string occurs only in text an earlier operation
\* introduced) is accepted.
C3_FoldInOrder ==
    (InMultiEdit /\ pc = "done" /\ pre_kind = "file" /\ file_path_abs) =>
        /\ Succeeded =>
              /\ fkind = "file"
              /\ fcontent = RefFold(pre_content, edits, Len(edits))
        /\ (edits # <<>> /\ ~SomeInvalid) => Succeeded

\* C3 witness: a successful call whose second operation matches only text
\* that the first one introduced.
C3_Witness ==
    /\ InMultiEdit /\ pc = "done" /\ pre_kind = "file" /\ Succeeded
    /\ Len(edits) = 2
    /\ pre_content # <<>>
    /\ Positions(pre_content, edits[2].old_string) = {}
    /\ fcontent # RefApply(pre_content, edits[1])

\* the operations after the first are each valid, starting from X
RestValid(X, ops) ==
    \A k \in 1..Len(ops) : ~RefInvalid(RefFold(X, ops, k - 1), ops[k])

NewFileCall ==
    InMultiEdit /\ pc = "done" /\ pre_kind = "none" /\ file_path_abs /\ edits # <<>>

\* C4 as claimed: on a missing path, a first operation ("", X) creates the
\* file with X followed by the remaining (valid) operations applied in
\* order; a first operation with a non-empty old_string fails and creates
\* nothing.
C4_Original ==
    NewFileCall =>
        IF edits[1].old_string = <<>>
        THEN RestValid(edits[1].new_string, Tail(edits)) =>
                /\ Succeeded
                /\ fkind = "file"
                /\ fcontent = RefFold(edits[1].new_string, Tail(edits), Len(edits) - 1)
        ELSE Failed /\ fkind = "none"

\* C4 amended: the same for a non-empty X; with X empty the first operation
\* is a no-op edit, the call fails and no file is created.
C4_NewFile ==
    NewFileCall =>
        IF edits[1].old_string = <<>>
        THEN IF edits[1].new_string # <<>>
             THEN RestValid(edits[1].new_string, Tail(edits)) =>
                     /\ Succeeded
                     /\ fkind = "file"
                     /\ fcontent = RefFold(edits[1].new_string, Tail(edits),
                                           Len(edits) - 1)
             ELSE Failed /\ fkind = "none"
        ELSE Failed /\ fkind = "none"

\* C4 witness: a file was created from X and a second operation changed X.
C4_Witness ==
    /\ NewFileCall /\ Succeeded /\ fkind = "file"
    /\ Len(edits) = 2
    /\ edits[1].new_string # <<>>
    /\ fcontent # edits[1].new_string

\* C5 as claimed: in new-file mode a first operation ("", "") is accepted,
\* not rejected as a no-op edit.
C5_Original ==
    (NewFileCall /\ edits[1].old_string = <<>> /\ edits[1].new_string = <<>>)
        => result # ErrEditNoOp(1)

\* C5 amended: in new-file mode a first operation with an empty old_string
\* is exempt from the absence and uniqueness checks but not from the no-op
\* check: ("", "") is rejected as a no-op edit and no file is created, and
\* ("", X) with X non-empty is never the operation the call fails on.
C5_NewFileNoOp ==
    (NewFileCall /\ edits[1].old_string = <<>>) =>
        IF edits[1].new_string = <<>>
        THEN result = ErrEditNoOp(1) /\ fkind = "none" /\ writes = 0
        ELSE ~(Failed /\ result.idx = 1)

\* C5 witness: a call on a missing path with first operation ("", "") has
\* returned.
C5_Witness ==
    /\ NewFileCall
    /\ edits[1].old_string = <<>> /\ edits[1].new_string = <<>>
    /\ result = ErrEditNoOp(1)

ReverseEditDone == InEdit /\ pc = "done" /\ rt_orig # <<>>

\* C7 as claimed: for s # t with s occurring exactly once in F, Edit(F, s, t)
\* followed by Edit(result, t, s) both succeed and the file is F again.
C7_Original ==
    (ReverseEditDone /\ Cardinality(Positions(rt_orig[1], new_string)) = 1) =>
        /\ Succeeded
        /\ fkind = "file" /\ fcontent = rt_orig[1]

\* C7 amended: the round trip holds when, in addition, t occurs exactly once
\* in the output of the first edit (at no position other than the one the
\* first edit wrote it to).
C7_RoundTrip ==
    (ReverseEditDone /\ Cardinality(Positions(pre_content, old_string)) = 1) =>
        /\ Succeeded
        /\ fkind = "file" /\ fcontent = rt_orig[1]

\* C7 witness: a reverse edit has restored a file of two or more characters.
C7_Witness ==
    /\ ReverseEditDone /\ Succeeded
    /\ Len(rt_orig[1]) >= 2 /\ old_string # <<>> /\ new_string # <<>>
    /\ pre_content # rt_orig[1]
    /\ fcontent = rt_orig[1]

\* C8: a successful Edit with replace_all has put new_string in place of
\* every match of old_string and reports the number of substitutions made;
\* without replace_all the match is unique, one substitution is made and 1
\* is reported.  With replace_all, a file that contains old_string is
\* always edited.
C8_ReplacedAndReported ==
    /\ (InEdit /\ pc = "done" /\ Succeeded) =>
          LET M == Matches(pre_content, old_string)
          IN /\ fkind = "file"
             /\ fcontent = SubstituteAt(pre_content, M, old_string, new_string)
             /\ result = EditOk(Cardinality(M))
             /\ M # {}
             /\ ~replace_all => Cardinality(M) = 1
    /\ (/\ InEdit /\ pc = "done" /\ pre_kind = "file" /\ file_path_abs
        /\ old_string # new_string /\ replace_all
        /\ Positions(pre_content, old_string) # {}) => Succeeded

\* C8 witness: a replace_all Edit replaced old_string where two of its
\* occurrences overlap, and another occurrence besides.
C8_Witness ==
    /\ InEdit /\ pc = "done" /\ Succeeded /\ replace_all
    /\ Cardinality(Positions(pre_content, old_string)) > result.n
    /\ result.n >= 1
    /\ fcontent # pre_content

\* C9: an Edit with old_string = new_string returns the no-op error
\* whatever the path and the file are, straight from the first check, and
\* it neither opens nor changes the file.
C9_NoOpFirst ==
    (InEdit /\ old_string = new_string) =>
        /\ pc \in {"e_validate", "done"}
        /\ reads = 0 /\ writes = 0
        /\ FileAsBefore
        /\ pc = "done" => result = ErrNoOp

\* C9 witness: a no-op Edit on a relative path has returned.
C9_Witness ==
    /\ InEdit /\ pc = "done" /\ old_string = new_string
    /\ ~file_path_abs
    /\ result = ErrNoOp

\* C10: an Edit (absolute path, old_string # new_string) on an existing
\* regular file that does not contain old_string returns the text-not-found
\* error and leaves the file unchanged; on a missing file it returns the
\* file-does-not-exist error, which is a different message.
C10_TextNotFound ==
    (InEdit /\ pc = "done" /\ file_path_abs /\ old_string # new_string) =>
        /\ (pre_kind = "file" /\ Positions(pre_content, old_string) = {}) =>
              /\ result = ErrTextNotFound
              /\ result # ErrNotExist
              /\ FileAsBefore /\ writes = 0
        /\ pre_kind = "none" => result = ErrNotExist /\ result # ErrTextNotFound

\* C10 witness: an Edit on a non-empty file without old_string has returned.
C10_Witness ==
    /\ InEdit /\ pc = "done" /\ file_path_abs /\ old_string # new_string
    /\ pre_kind = "file" /\ pre_content # <<>>
    /\ Positions(pre_content, old_string) = {}
    /\ result = ErrTextNotFound /\ reads = 1

(* ----------------------------- concurrency ----------------------------- *)
\* the content the invocation writes
Output == IF InEdit THEN new_content ELSE current_content

\* C11: while an Edit or MultiEdit invocation performs its write, a reader
\* of the same file observes either the complete content the file had before
\* the edit or the complete content after it, never an empty, truncated or
\* intermediate content.
C11_ReaderSeesOldOrNew ==
    \A k \in 1..Len(seen) :
        \/ seen[k] = [kind |-> pre_kind, content |-> pre_content]
        \/ writes >= 1 /\ seen[k] = [kind |-> "file", content |-> Output]

\* C12: two Edit invocations on the same file whose steps interleave leave,
\* once both have returned, the complete output of one of them, computed
\* from the content that invocation read (the last writer wins): never a
\* mixture of the two outputs and never a partial content.  When neither
\* wrote, the file is what it was.
C12_LastWriterWins ==
    (InEdit /\ pc = "done" /\ b_pc = "done") =>
        \/ writes = 0 /\ b_writes = 0 /\ FileAsBefore
        \/ /\ writes >= 1
           /\ fkind = "file"
           /\ fcontent = RefApply(content,
                  [old_string |-> old_string, new_string |-> new_string,
                   replace_all |-> replace_all])
        \/ /\ b_writes >= 1
           /\ fkind = "file"
           /\ fcontent = RefApply(b_content,
                  [old_string |-> b_old_string, new_string |-> b_new_string,
                   replace_all |-> b_replace_all])

(* --------------------------- error convention -------------------------- *)
\* the invocation returned without performing its modification
NotPerformed == writes = 0

\* C13: every failing invocation of a tool returns a string that begins
\* with the token "Error:", and every successful one returns a string that
\* does not (stated for the tools that modify a file, which succeed exactly
\* when they write it).
C13_ErrorToken ==
    (pc = "done" /\ tool \in {"Edit", "MultiEdit", "NotebookEdit"}) =>
        (result.prefix = "Error:" <=> NotPerformed)

(* ------------------------------ notebooks ------------------------------ *)
InNotebookEdit == tool = "NotebookEdit"
InNotebookRead == tool = "NotebookRead"

\* the cells the notebook file held when the tool was called
OldCells == pre_nb[3]

\* the notebook file was a parsable notebook at an acceptable path
NotebookUsable ==
    /\ IsAbs(notebook_path)
    /\ EndsWithIpynb(notebook_path)
    /\ pre_nb[1] = "file"
    /\ pre_nb[2] = "ok"

\* a cell_id was given (None and the empty string count as omitted, as in
\* the test `if self.cell_id:`)
Given == cell_id \notin {None, ""}

\* the 0-based indices of the cells of cs whose id is cid
WithId(cs, cid) == {k \in 0..(Len(cs) - 1) : cs[k + 1].id = cid}

\* the 0-based positions of cs that cid names in decimal
PositionsNamed(cs, cid) == {k \in 0..(Len(cs) - 1) : IndexName(k) = cid}

\* the cell a given cell_id addresses: the first cell with that id, else the
\* cell at the position it names, else none
RefResolve(cs, cid) ==
    IF WithId(cs, cid) # {} THEN First(WithId(cs, cid))
    ELSE IF PositionsNamed(cs, cid) # {} THEN First(PositionsNamed(cs, cid))
    ELSE NoIndex

\* the cell the call targets
RefTarget == IF Given THEN RefResolve(OldCells, cell_id) ELSE 0

\* the invocation has written the notebook and returned
NotebookEdited(mode) ==
    /\ InNotebookEdit
    /\ edit_mode = mode
    /\ pc = "done"
    /\ Succeeded

DistinctIds(cs) ==
    \A j \in 1..Len(cs), k \in 1..Len(cs) :
        (j # k /\ cs[j].id # Absent) => cs[j].id # cs[k].id

\* C15: the id given to an inserted cell is fresh.  A successful insert,
\* delete or replace on a notebook whose cell ids are pairwise distinct
\* leaves a notebook whose cell ids are pairwise distinct (so they stay
\* distinct after any sequence of such calls).
C15_FreshIds ==
    (InNotebookEdit /\ pc = "done" /\ Succeeded /\ DistinctIds(OldCells)) =>
        DistinctIds(nb_cells)

\* NotebookEdit has gone through step 7 with a cell_id
ResolvedById ==
    /\ InNotebookEdit
    /\ Given
    /\ \/ pc \in {"n_apply", "n_open", "n_dump"}
       \/ pc = "done" /\ NotebookUsable /\ reads = 1

\* C16: when cell_id is given, NotebookEdit selects the first cell whose id
\* equals cell_id; only if no cell has that id is cell_id read as a
\* zero-based position, selected iff it is at least 0 and less than the
\* number of cells; if neither resolves, the call fails with the
\* cell-not-found error.
C16_Resolution ==
    ResolvedById =>
        IF RefResolve(OldCells, cell_id) = NoIndex
        THEN pc = "done" /\ result = ErrNbCellNotFound
        ELSE /\ target_index = RefResolve(OldCells, cell_id)
             /\ result # ErrNbCellNotFound

\* a cell_id that is both the id of the second cell and the position of the
\* first has selected the second
C16_Witness ==
    /\ ResolvedById
    /\ pc = "done"
    /\ Len(OldCells) = 2
    /\ OldCells[1].id # cell_id
    /\ OldCells[2].id = cell_id
    /\ PositionsNamed(OldCells, cell_id) = {0}
    /\ target_index = 1

\* C17: NotebookRead resolves a cell_id to the same cell, or to the same
\* not-found outcome, as NotebookEdit does on the same notebook: a match on
\* the id takes precedence over the reading as a position.
C17_SameResolution ==
    (InNotebookRead /\ pc = "done" /\ Given /\ NotebookUsable) =>
        result = IF ResolveEdit(OldCells, cell_id) = NoIndex
                 THEN ErrNbCellNotFound
                 ELSE NbCell(OldCells[ResolveEdit(OldCells, cell_id) + 1],
                             cell_id)

\* the call fails validation: a path that is not absolute, a missing file,
\* a directory, a file that is not .ipynb, an insert without cell_type, a
\* file that is not JSON or has no 'cells', a cell_id that addresses no
\* cell, or a replace or delete without cell_id on a notebook without cells
NbInvalid ==
    \/ ~IsAbs(notebook_path)
    \/ pre_nb[1] # "file"
    \/ ~EndsWithIpynb(notebook_path)
    \/ edit_mode = "insert" /\ cell_type = None
    \/ pre_nb[2] # "ok"
    \/ Given /\ RefResolve(OldCells, cell_id) = NoIndex
    \/ ~Given /\ edit_mode \in {"replace", "delete"} /\ OldCells = <<>>

NotebookAsBefore == <<nb_kind, nb_json, nb_cells>> = pre_nb

\* C18: a NotebookEdit call that fails validation leaves the notebook file
\* unchanged: the file is never opened for writing, it is at every moment
\* what it was, and the call returns an error.
C18_FailureLeavesFile ==
    (InNotebookEdit /\ NbInvalid) =>
        /\ NotebookAsBefore
        /\ writes = 0
        /\ pc = "done" => result.prefix = "Error:"

\* a call whose cell_id addresses no cell of a notebook that has cells has
\* returned
C18_Witness ==
    /\ InNotebookEdit
    /\ pc = "done"
    /\ NotebookUsable
    /\ OldCells # <<>>
    /\ Given
    /\ RefResolve(OldCells, cell_id) = NoIndex
    /\ result = ErrNbCellNotFound
    /\ NotebookAsBefore

\* every code cell has execution_count and outputs, no markdown cell has
\* either
WellFormed(cs) ==
    \A k \in 1..Len(cs) :
        /\ cs[k].cell_type = "code" =>
              cs[k].execution_count # Absent /\ cs[k].outputs # Absent
        /\ cs[k].cell_type = "markdown" =>
              cs[k].execution_count = Absent /\ cs[k].outputs = Absent

\* a code cell that has not run
FreshCode(c) ==
    c.cell_type = "code" /\ c.execution_count = None /\ c.outputs = "empty"

\* C19: insert, replace (with or without a change of type) and delete keep
\* the cell-kind invariant: from a notebook in which every code cell has
\* execution_count and outputs and no markdown cell has either, a successful
\* call leaves such a notebook; an inserted code cell and a cell converted
\* to code have execution_count none and empty outputs.
C19_CellKinds ==
    (InNotebookEdit /\ pc = "done" /\ Succeeded /\ WellFormed(OldCells)) =>
        /\ WellFormed(nb_cells)
        /\ (edit_mode = "insert" /\ cell_type = "code") =>
              FreshCode(nb_cells[(IF Given THEN RefTarget + 1 ELSE 0) + 1])
        /\ (edit_mode = "replace" /\ cell_type = "code"
               /\ OldCells[RefTarget + 1].cell_type # "code") =>
              FreshCode(nb_cells[RefTarget + 1])

\* a code cell that had run has been turned into markdown
C19_Witness ==
    /\ NotebookEdited("replace")
    /\ cell_type = "markdown"
    /\ OldCells[RefTarget + 1].cell_type = "code"
    /\ OldCells[RefTarget + 1].outputs = "some"
    /\ nb_cells[RefTarget + 1].cell_type = "markdown"
    /\ nb_cells[RefTarget + 1].outputs = Absent

\* C20: a delete removes exactly the resolved cell, the others unchanged and
\* in the same order; a replace changes only the resolved cell, the number
\* and the order of the cells unchanged.
C20_OnlyTheTarget ==
    /\ NotebookEdited("delete") =>
          /\ nb_json = "ok"
          /\ Len(nb_cells) = Len(OldCells) - 1
          /\ \A k \in 1..Len(OldCells) :
                /\ k < RefTarget + 1 => nb_cells[k] = OldCells[k]
                /\ k > RefTarget + 1 => nb_cells[k - 1] = OldCells[k]
    /\ NotebookEdited("replace") =>
          /\ nb_json = "ok"
          /\ Len(nb_cells) = Len(OldCells)
          /\ \A k \in 1..Len(OldCells) :
                k # RefTarget + 1 => nb_cells[k] = OldCells[k]
          /\ nb_cells[RefTarget + 1].id = OldCells[RefTarget + 1].id
          /\ nb_cells[RefTarget + 1].source = FormatSource(new_source)

\* the second of two different cells has been deleted
C20_Witness ==
    /\ NotebookEdited("delete")
    /\ Len(OldCells) = 2
    /\ OldCells[1] # OldCells[2]
    /\ RefTarget = 1
    /\ nb_cells = <<OldCells[1]>>

(* ---------------------------- C21 ---------------------------- *)
\* the concatenation of a list of strings, left to right
RefConcat(L) ==
    LET F[k \in 0..Len(L)] == IF k = 0 THEN <<>> ELSE F[k - 1] \o L[k]
    IN F[Len(L)]

Normalized == tool = "_format_source" /\ pc = "done"

\* C21: the array _format_source builds from new_source is normalized: every
\* element but the last ends in a line terminator, no element holds a line
\* terminator before its final character, there is no empty element at the
\* end, and an empty source gives the empty array.
C21_Normalized ==
    Normalized =>
        LET L == formatted_lines[1]
        IN /\ \A k \in 1..(Len(L) - 1) :
                  L[k] # <<>> /\ L[k][Len(L[k])] = NL
           /\ \A k \in 1..Len(L) :
                  \A j \in 1..(Len(L[k]) - 1) : L[k][j] # NL
           /\ (L # <<>> => L[Len(L)] # <<>>)
           /\ (new_source = <<>> => L = <<>>)

C21_Witness ==
    /\ Normalized
    /\ new_source = <<"x", NL, "y", NL>>
    /\ formatted_lines[1] = << <<"x", NL>>, <<"y", NL>> >>

(* ---------------------------- C30 ---------------------------- *)
\* C30: _format_source loses nothing: the elements of the array it builds,
\* concatenated in order, are new_source exactly.
C30_Lossless ==
    Normalized => RefConcat(formatted_lines[1]) = new_source

C30_Witness ==
    /\ Normalized
    /\ new_source = <<NL, "x", NL>>
    /\ formatted_lines[1] = << <<NL>>, <<"x", NL>> >>

(* ---------------------------- C22 ---------------------------- *)
\* C22: NotebookRead never modifies the notebook: whatever the path, the
\* cell_id and the outcome, the notebook file is at every moment of the call
\* what it was when the tool was called, and nothing is written.
C22_ReadOnly ==
    InNotebookRead => NotebookAsBefore /\ writes = 0

\* a NotebookRead call has read a notebook of two cells and rendered the
\* cell it was asked for
C22_Witness ==
    /\ InNotebookRead
    /\ pc = "done"
    /\ reads = 1
    /\ result.prefix # "Error:"
    /\ Truthy(cell_id)
    /\ Len(nb_cells) = 2

(* ---------------------------- C23 ---------------------------- *)
InTodoWrite == tool = "TodoWrite"

\* the number of items of the list whose status is in_progress
InProgress == Cardinality({k \in 1..Len(todos) : todos[k].status = "in_progress"})

\* the ids of the list are pairwise different
UniqueIds ==
    \A j, k \in 1..Len(todos) : todos[j].id = todos[k].id => j = k

Rendered == result.prefix = "=== TODO LIST ==="

MultipleInProgress == result.prefix = "Warning:" /\ result.n = InProgress

\* the claim as stated: every list with two or more in_progress items gets
\* the multiple-in_progress message
C23_Original ==
    (InTodoWrite /\ pc = "done" /\ InProgress >= 2) => MultipleInProgress

\* C23: a list with two or more in_progress items is never rendered; when
\* its ids are unique the call returns the multiple-in_progress message
\* naming those items, and when an id repeats it returns the duplicate-id
\* error. A list with at most one in_progress item, unique ids and at least
\* one item is rendered.
C23_InProgressLimit ==
    (InTodoWrite /\ pc = "done") =>
        /\ (InProgress >= 2 /\ UniqueIds) =>
               /\ MultipleInProgress
               /\ \A k \in 1..Len(result.lines) :
                      result.lines[k].status = "in_progress"
        /\ (InProgress >= 2 /\ ~UniqueIds) => result = ErrTodoDuplicate
        /\ (InProgress <= 1 /\ UniqueIds /\ todos # <<>>) => Rendered
        /\ Rendered => InProgress <= 1

C23_Witness ==
    /\ InTodoWrite
    /\ pc = "done"
    /\ InProgress = 2
    /\ UniqueIds
    /\ Len(todos) = 3
    /\ MultipleInProgress

(* ---------------------------- C24 ---------------------------- *)
\* the numbers of the PROGRESS line of a rendered list
Progress ==
    LET k == CHOOSE k \in 1..Len(result.lines) :
                 result.lines[k].kind = "progress"
    IN result.lines[k].nums

Completed == Cardinality({k \in 1..Len(todos) : todos[k].status = "completed"})

\* C24: for a rendered list with c completed items out of n, the PROGRESS
\* line reports c, n and a whole percentage between 0 and 100 that is nearest
\* to 100*c/n (no other integer is nearer).
C24_Percentage ==
    (InTodoWrite /\ pc = "done" /\ Rendered) =>
        LET c == Progress[1]
            n == Progress[2]
            pct == Progress[3]
            d == pct * n - 100 * c
        IN /\ c = Completed
           /\ n = Len(todos)
           /\ pct \in 0..100
           /\ 2 * d <= n
           /\ -2 * d <= n

\* two of three items are completed and the line reports 67%
C24_Witness ==
    /\ InTodoWrite
    /\ pc = "done"
    /\ Rendered
    /\ Progress = <<2, 3, 67>>

(* ---------------------------- C25 ---------------------------- *)
\* a tool that takes file_path was called with a path that is not absolute
\* (Edit with old_string and new_string different)
RelativeFilePath ==
    /\ tool \in {"Edit", "MultiEdit", "Write", "Read"}
    /\ ~file_path_abs
    /\ InEdit => old_string # new_string

\* a notebook tool was called with a path that is not absolute
RelativeNotebookPath ==
    /\ tool \in {"NotebookEdit", "NotebookRead"}
    /\ ~IsAbs(notebook_path)

\* C25: a call of MultiEdit, Write, Read, NotebookEdit or NotebookRead (or of
\* Edit with old_string # new_string) whose path is not absolute returns the
\* not-absolute error whatever is at the path (nothing, a directory, a file),
\* and at every moment of the call nothing was read or written and the file,
\* its parent directory and the notebook are what they were.
C25_PathFirst ==
    /\ RelativeFilePath =>
           /\ FileAsBefore
           /\ dir_exists = pre_dir
           /\ reads = 0 /\ writes = 0
           /\ pc = "done" => result = ErrNotAbsolute
    /\ RelativeNotebookPath =>
           /\ NotebookAsBefore
           /\ reads = 0 /\ writes = 0
           /\ pc = "done" => result = ErrNbNotAbsolute

\* Write was called with a relative path where neither the file nor its
\* directory exists, and has returned
C25_Witness ==
    /\ tool = "Write"
    /\ pc = "done"
    /\ ~file_path_abs
    /\ pre_kind = "none"
    /\ ~pre_dir
    /\ content # <<>>

(* ---------------------------- C26 ---------------------------- *)
\* an Edit without replace_all has passed the checks on its arguments and on
\* the path, and has returned
SingleEditDone ==
    /\ InEdit /\ pc = "done"
    /\ pre_kind = "file" /\ file_path_abs
    /\ old_string # new_string
    /\ ~replace_all

\* the claim as stated: the uniqueness check counts every position at which
\* old_string occurs, overlapping occurrences included, and rejects the edit
\* when there is more than one
C26_Original ==
    (SingleEditDone /\ Cardinality(Positions(pre_content, old_string)) > 1) =>
        result = ErrAmbiguous(Cardinality(Positions(pre_content, old_string)))

\* C26: Edit's uniqueness check counts the occurrences of old_string that the
\* replace step would substitute (occurrences that do not overlap, scanned
\* from the left), never more: with more than one the edit is rejected and
\* that number is reported; with exactly one, even when old_string occurs at
\* further, overlapping positions, the edit is accepted and the leftmost
\* occurrence is replaced.
C26_CountsAsReplace ==
    (SingleEditDone /\ Positions(pre_content, old_string) # {}) =>
        LET M == Matches(pre_content, old_string)
        IN /\ Cardinality(M) > 1 =>
                  result = ErrAmbiguous(Cardinality(M)) /\ FileAsBefore
           /\ Cardinality(M) = 1 =>
                  /\ Succeeded
                  /\ fcontent = SubstituteAt(pre_content,
                                   {First(Positions(pre_content, old_string))},
                                   old_string, new_string)

\* old_string "aa" in the content "aaa": the edit was accepted
C26_Witness ==
    /\ SingleEditDone
    /\ pre_content = <<"a", "a", "a">>
    /\ old_string = <<"a", "a">>
    /\ new_string = <<"b">>
    /\ Succeeded
    /\ fcontent = <<"b", "a">>

(* ---------------------------- C27 ---------------------------- *)
\* operation k of the call creates the file
RefCreates(k) == pre_kind = "none" /\ k = 1 /\ edits[1].old_string = <<>>

\* C27: the two passes of MultiEdit agree.  Once the validation pass has
\* accepted every operation, the content the apply pass ends with, and the
\* content of the file when the call has returned, is the content the
\* validation pass ended with; and the count reported for a replace_all
\* operation is the number of occurrences of its old_string (as str.count
\* counts them) in the content the operations before it produce.
C27_PassesAgree ==
    /\ (InMultiEdit /\ pc \in {"m_open", "m_write"}) =>
           current_content = validation_content
    /\ (InMultiEdit /\ pc = "done" /\ Succeeded) =>
           /\ current_content = validation_content
           /\ fkind = "file" /\ fcontent = validation_content
           /\ Len(result.lines) = Len(edits)
           /\ \A k \in 1..Len(edits) :
                  (edits[k].replace_all /\ ~RefCreates(k)) =>
                      result.lines[k].n =
                          Cardinality(Matches(RefFold(InitialText, edits, k - 1),
                                              edits[k].old_string))

\* a call of two operations has succeeded; the second, with replace_all,
\* replaced two occurrences, one of which the first operation introduced
C27_Witness ==
    /\ InMultiEdit /\ pc = "done" /\ Succeeded
    /\ pre_kind = "file"
    /\ Len(edits) = 2
    /\ edits[2].replace_all
    /\ result.lines[2].n = 2
    /\ Cardinality(Matches(pre_content, edits[2].old_string)) = 1
    /\ fcontent = validation_content

ReplaceAllDone ==
    /\ InEdit /\ pc = "done" /\ Succeeded
    /\ replace_all
    /\ Positions(new_string, old_string) = {}

\* the claim as stated: no occurrence of old_string is left in the file
C29_Original ==
    ReplaceAllDone => Positions(fcontent, old_string) = {}

\* C29: after a successful Edit with replace_all whose new_string does not
\* contain old_string, every occurrence of old_string the left-to-right scan
\* of the original content finds has been replaced (the file has changed in
\* length by the number of replacements reported times the difference of
\* the two lengths, and that number is the number of those occurrences);
\* when old_string is a single character none is left in the file.  The
\* result is not scanned again, so a longer old_string can occur where a
\* replacement meets its surroundings.
C29_AllInstances ==
    ReplaceAllDone =>
        /\ result.n = Cardinality(Matches(pre_content, old_string))
        /\ result.n >= 1
        /\ Len(fcontent) = Len(pre_content)
                             + result.n * (Len(new_string) - Len(old_string))
        /\ Len(old_string) = 1 => Positions(fcontent, old_string) = {}

\* both occurrences of a one-character old_string were replaced
C29_Witness ==
    /\ ReplaceAllDone
    /\ pre_content = <<"a", "b", "a">>
    /\ old_string = <<"a">>
    /\ new_string = <<"b", "b">>
    /\ fcontent = <<"b", "b", "b", "b", "b">>

====
